---- MODULE Spec2Model ----
(***************************************************************************)
(* MC Extractor (MCE.py): microcode detection, validation, classification  *)
(* and "latest revision" comparison, as a state machine.                   *)
(*                                                                         *)
(* Conventions                                                             *)
(*  - a byte buffer (Python bytes) is a sequence of 0..255;                *)
(*  - a Python str is a sequence of character codes;                       *)
(*  - a 32-bit quantity is the pair <<hi, lo>> of its 16-bit halves, so    *)
(*    that the arithmetic keeps its full width; a Python int that may      *)
(*    exceed 32 bits is the same pair with an unbounded hi.                *)
(***************************************************************************)
EXTENDS Integers, Sequences, FiniteSets, TLC

VARIABLES
    call,       \* function-level harness: the function applied, its inputs and its result
    db,         \* MCE.db: the vendor tables (row order = ROWID order) and the MCE row
    param,      \* MCE_Param flags of the run
    source,     \* the input file list: the paths given, then the temporary files appended
    temp_mc_paths, \* paths of the temporary files the script made
    cur_count,  \* number of files opened so far (index into source)
    reading,    \* contents of the file being parsed
    match_list, \* start offsets of the pattern matches of the vendor loop in progress
    idx,        \* match_ucode_idx of the vendor loop in progress
    pc,         \* position of the script
    mc_nr,      \* running microcode number of the file
    total,      \* number of pattern matches in the file so far
    mc_conv_data, \* the binary image converted from the file, when it is an Intel container
    msgs,       \* msg_i + msg_a + msg_v + msg_f of the file
    disk,       \* the files the script wrote: path -> content (Extracted/, Warnings/, temporary files)
    mc,         \* the script's globals as the last microcode iteration assigned them
    exit_code   \* the code handed to mce_exit, NoCode while the script runs

pipeVars == <<db, param, source, temp_mc_paths, cur_count, reading, match_list, idx, pc, mc_nr,
              total, mc_conv_data, msgs, disk, mc, exit_code>>
vars == <<call, db, param, source, temp_mc_paths, cur_count, reading, match_list, idx, pc, mc_nr,
          total, mc_conv_data, msgs, disk, mc, exit_code>>

----------------------------------------------------------------------------
(* Python slices, integers and strings                                     *)

Min(a, b) == IF a < b THEN a ELSE b

\* s[a:b]
PySlice(s, a, b) ==
    LET n  == Len(s)
        na == IF a < 0 THEN (IF a + n < 0 THEN 0 ELSE a + n) ELSE Min(a, n)
        nb == IF b < 0 THEN (IF b + n < 0 THEN 0 ELSE b + n) ELSE Min(b, n)
    IN  IF na >= nb THEN <<>> ELSE SubSeq(s, na + 1, nb)

\* s[a:]
PyFrom(s, a) == PySlice(s, a, Len(s))

\* int.from_bytes(b, 'little') for len(b) <= 4
FromLE(b) ==
    LET g(i) == IF i <= Len(b) THEN b[i] ELSE 0
    IN  <<g(3) + 256 * g(4), g(1) + 256 * g(2)>>

\* int.from_bytes(b, 'big') for len(b) <= 4
FromBE(b) ==
    LET n    == Len(b)
        g(i) == IF i >= 1 THEN b[i] ELSE 0
    IN  <<g(n - 2) + 256*g(n - 3), g(n) + 256 * g(n - 1)>>

U32Zero == <<0, 0>>

\* a < b on unsigned 32-bit values
U32Lt(a, b) == a[1] < b[1] \/ (a[1] = b[1] /\ a[2] < b[2])

\* a 32-bit value below 2^31 as a plain integer
U32Int(v) == v[1] * 65536 + v[2]

\* ctypes.c_int(v).value < 0
CIntNegative(v) == v[1] >= 32768

\* a + b on Python ints (hi unbounded)
BigAdd(a, b) ==
    LET l == a[2] + b[2]
    IN  <<a[1] + b[1] + (l \div 65536), l % 65536>>

\* v & 0xFFFFFFFF for v >= 0
Mask32(v) == <<v[1] % 65536, v[2]>>

\* -v & 0xFFFFFFFF for v >= 0
NegMask32(v) ==
    LET h == v[1] % 65536
    IN  IF v[2] = 0 THEN <<(65536 - h) % 65536, 0>>
                   ELSE <<65535 - h, 65536 - v[2]>>

\* the uppercase hexadecimal digit of n in 0..15, as a character code
HexChar(n) == IF n < 10 THEN 48 + n ELSE 55 + n

\* value of a hexadecimal or decimal digit character
DigitVal(c) == IF c <= 57 THEN c - 48 ELSE c - 55

RECURSIVE Digits(_, _, _)
\* the digits of n >= 0 in the given base, most significant first, at least w of them
Digits(n, base, w) ==
    IF n < base /\ w <= 1 THEN <<HexChar(n)>>
    ELSE Append(Digits(n \div base, base, w - 1), HexChar(n % base))

\* '%0.<w>X' % n
FmtX(n, w) == Digits(n, 16, w)

\* '%0.<w>d' % n
FmtD(n, w) == Digits(n, 10, w)

\* '%0.8X' % v for a 32-bit v
FmtX8(v) == FmtX(v[1], 4) \o FmtX(v[2], 4)

RECURSIVE ParseInt(_, _)
\* int(s, base) for a digit string s whose value fits a machine word
ParseInt(s, base) ==
    IF s = <<>> THEN 0
    ELSE ParseInt(SubSeq(s, 1, Len(s) - 1), base) * base + DigitVal(s[Len(s)])

\* int(s)
py_int(s) == ParseInt(s, 10)

\* int(s, 16) for a string of eight hexadecimal digits, as a 32-bit value
py_int16(s) == <<ParseInt(SubSeq(s, 1, Len(s) - 4), 16), ParseInt(SubSeq(s, Len(s) - 3, Len(s)), 16)>>

RECURSIVE StrLt(_, _)
\* a < b on Python strings (lexicographic by code point)
StrLt(a, b) ==
    IF b = <<>> THEN FALSE
    ELSE IF a = <<>> THEN TRUE
    ELSE IF a[1] # b[1] THEN a[1] < b[1]
    ELSE StrLt(Tail(a), Tail(b))

----------------------------------------------------------------------------
(* Checksum engines                                                        *)

RECURSIVE checksum32_loop(_, _, _, _)
\* the for loop of checksum32: chk32 after the words number lo..hi (from 0, the word
\* at idx = 4 * number) are added, in order.  The range is halved, and the test
\* left = left makes TLC evaluate the first half before the second, which keeps
\* the evaluation stack shallow on long buffers.
checksum32_loop(data, lo, hi, chk32) ==
    IF lo > hi THEN chk32
    ELSE IF lo = hi THEN BigAdd(chk32, FromLE(PySlice(data, 4 * lo, 4 * lo + 4)))
    ELSE LET mid  == (lo + hi) \div 2
             left == checksum32_loop(data, lo, mid, chk32)
         IN  IF left = left THEN checksum32_loop(data, mid + 1, hi, left) ELSE left

\* a plausible slip: the two halves summed apart, the carry out of the low half lost
checksum32_nocarry(data) ==
    LET RECURSIVE go(_, _, _)
        go(lo, hi, acc) ==
            IF lo > hi THEN acc
            ELSE IF lo = hi
                 THEN LET w == FromLE(PySlice(data, 4 * lo, 4 * lo + 4))
                      IN  <<(acc[1] + w[1]) % 65536, (acc[2] + w[2]) % 65536>>
            ELSE LET left == go(lo, (lo + hi) \div 2, acc)
                 IN  IF left = left THEN go((lo + hi) \div 2 + 1, hi, left) ELSE left
    IN  NegMask32(go(0, (Len(data) + 3) \div 4 - 1, U32Zero))

checksum32(data) == NegMask32(checksum32_loop(data, 0, (Len(data) + 3) \div 4 - 1, U32Zero))

----------------------------------------------------------------------------
(* date_check                                                              *)

\* a plausible slip: the leap rule inverted
date_check_noleap(year, month, day) ==
    LET y == py_int(year)
        m == py_int(month)
        d == py_int(day)
    IN  IF ~(y >= 0 /\ 1 <= m /\ m <= 12 /\ 1 <= d /\ d <= 31) THEN FALSE
        ELSE IF y % 4 # 0
             THEN (IF m = 2 /\ d > 29 THEN FALSE ELSE TRUE)
             ELSE (IF m = 2 /\ d > 28 THEN FALSE ELSE TRUE)

date_check(year, month, day) ==
    LET y == py_int(year)
        m == py_int(month)
        d == py_int(day)
    IN  IF ~(y >= 0 /\ 1 <= m /\ m <= 12 /\ 1 <= d /\ d <= 31) THEN FALSE
        ELSE IF y % 4 = 0
             THEN (IF m = 2 /\ d > 29 THEN FALSE ELSE TRUE)
             ELSE (IF m = 2 /\ d > 28 THEN FALSE ELSE TRUE)

----------------------------------------------------------------------------
(* Revision comparator                                                     *)

None == <<>>

\* exit_code while the script runs: a number that is no exit code of the script
NoCode == -2

Range(s) == {s[i] : i \in DOMAIN s}

\* cpuflags >> bit & 1
BitOf(cpuflags, bit) == (cpuflags \div (2 ^ bit)) % 2

\* a plausible slip: the 1995-1998 special case left out
intel_plat_nozero(cpuflags) ==
    SelectSeq(<<0, 1, 2, 3, 4, 5, 6, 7>>, LAMBDA bit : BitOf(cpuflags, bit) = 1)

intel_plat(cpuflags) ==
    IF cpuflags = 0 THEN <<0>>
    ELSE SelectSeq(<<0, 1, 2, 3, 4, 5, 6, 7>>, LAMBDA bit : BitOf(cpuflags, bit) = 1)

\* year < db_year or (year == db_year and (month < db_month or (month == db_month and day < db_day)))
DateOlder(g, db_year, db_month, db_day) ==
    \/ StrLt(g.year, db_year)
    \/ /\ g.year = db_year
       /\ \/ StrLt(g.month, db_month)
          \/ (g.month = db_month /\ StrLt(g.day, db_day))

\* the condition of the if statement of mc_upd_chk_intel for one entry
IntelEntryNewer(entry, in_pl_bit, in_rel, in_ver, g) ==
    LET db_day    == PySlice(entry[1], 6, 8)
        db_month  == PySlice(entry[1], 4, 6)
        db_year   == PySlice(entry[1], 0, 4)
        db_pl_bit == intel_plat(U32Int(py_int16(entry[2])))
        db_ver    == py_int16(entry[3])
        db_rel    == IF CIntNegative(db_ver) THEN "PRE" ELSE "PRD"
    IN  /\ in_rel = db_rel
        /\ Range(in_pl_bit) \subseteq Range(db_pl_bit)
        /\ \/ DateOlder(g, db_year, db_month, db_day)
           \/ /\ <<g.year, g.month, g.day>> = <<db_year, db_month, db_day>>
              /\ (Len(in_pl_bit) < Len(db_pl_bit) \/ U32Lt(in_ver, db_ver))
              /\ ~g.get_last

\* mc_latest as set by mc_upd_chk_intel for one entry
IntelEntryLatest(entry, g) ==
    LET db_ver == py_int16(entry[3])
    IN  <<g.cpu_id, U32Int(py_int16(entry[2])), db_ver, PySlice(entry[1], 0, 4),
          PySlice(entry[1], 4, 6), PySlice(entry[1], 6, 8),
          IF CIntNegative(db_ver) THEN "PRE" ELSE "PRD">>

RECURSIVE mc_upd_chk_intel_loop(_, _, _, _, _, _, _)
\* the for loop of mc_upd_chk_intel from entry k on; res = <<is_latest, mc_latest>>
mc_upd_chk_intel_loop(mc_upd_chk_rsl, k, res, in_pl_bit, in_rel, in_ver, g) ==
    IF k > Len(mc_upd_chk_rsl) THEN res
    ELSE LET entry == mc_upd_chk_rsl[k]
             nxt   == IF IntelEntryNewer(entry, in_pl_bit, in_rel, in_ver, g)
                      THEN <<FALSE, IntelEntryLatest(entry, g)>>
                      ELSE res
         IN  mc_upd_chk_intel_loop(mc_upd_chk_rsl, k + 1, nxt, in_pl_bit, in_rel, in_ver, g)

\* a plausible slip: the equal-date tie-break also applied in -last mode
mc_upd_chk_intel_tie(mc_upd_chk_rsl, in_pl_bit, in_rel, in_ver, in_mod, g) ==
    LET res == mc_upd_chk_intel_loop(mc_upd_chk_rsl, 1, <<TRUE, None>>, in_pl_bit, in_rel, in_ver,
                                     [g EXCEPT !.get_last = FALSE])
    IN  <<IF in_mod = 1 THEN FALSE ELSE res[1], res[2]>>

\* a plausible slip: the release channel of the rows ignored
mc_upd_chk_intel_anyrel(mc_upd_chk_rsl, in_pl_bit, in_rel, in_ver, in_mod, g) ==
    LET RECURSIVE go(_, _)
        go(k, res) ==
            IF k > Len(mc_upd_chk_rsl) THEN res
            ELSE LET entry  == mc_upd_chk_rsl[k]
                     db_rel == IF CIntNegative(py_int16(entry[3])) THEN "PRE" ELSE "PRD"
                 IN  go(k + 1, IF IntelEntryNewer(entry, in_pl_bit, db_rel, in_ver, g)
                               THEN <<FALSE, IntelEntryLatest(entry, g)>> ELSE res)
        res == go(1, <<TRUE, None>>)
    IN  <<IF in_mod = 1 THEN FALSE ELSE res[1], res[2]>>

\* g: the globals the function reads (year, month, day, cpu_id, param.get_last)
mc_upd_chk_intel(mc_upd_chk_rsl, in_pl_bit, in_rel, in_ver, in_mod, g) ==
    LET res == mc_upd_chk_intel_loop(mc_upd_chk_rsl, 1, <<TRUE, None>>, in_pl_bit, in_rel, in_ver, g)
    IN  <<IF in_mod = 1 THEN FALSE ELSE res[1], res[2]>>

\* the condition of the if statement of mc_upd_chk_amd for one entry
AmdEntryNewer(entry, in_ver, g) ==
    LET db_day   == PySlice(entry[1], 6, 8)
        db_month == PySlice(entry[1], 4, 6)
        db_year  == PySlice(entry[1], 0, 4)
        db_ver   == py_int16(entry[2])
    IN  \/ DateOlder(g, db_year, db_month, db_day)
        \/ /\ <<g.year, g.month, g.day>> = <<db_year, db_month, db_day>>
           /\ U32Lt(in_ver, db_ver)
           /\ ~g.get_last

\* mc_latest as set by mc_upd_chk_amd for one entry
AmdEntryLatest(entry, g) ==
    <<g.cpu_id, py_int16(entry[2]), PySlice(entry[1], 0, 4), PySlice(entry[1], 4, 6),
      PySlice(entry[1], 6, 8)>>

RECURSIVE mc_upd_chk_amd_loop(_, _, _, _, _)
\* the for loop of mc_upd_chk_amd from entry k on; res = <<is_latest, mc_latest>>
mc_upd_chk_amd_loop(mc_upd_chk_rsl, k, res, in_ver, g) ==
    IF k > Len(mc_upd_chk_rsl) THEN res
    ELSE LET entry == mc_upd_chk_rsl[k]
             nxt   == IF AmdEntryNewer(entry, in_ver, g)
                      THEN <<FALSE, AmdEntryLatest(entry, g)>>
                      ELSE res
         IN  mc_upd_chk_amd_loop(mc_upd_chk_rsl, k + 1, nxt, in_ver, g)

\* a plausible slip: the equal-date tie-break also applied in -last mode
mc_upd_chk_amd_tie(mc_upd_chk_rsl, in_ver, in_mod, g) ==
    LET res == mc_upd_chk_amd_loop(mc_upd_chk_rsl, 1, <<TRUE, None>>, in_ver,
                                   [g EXCEPT !.get_last = FALSE])
    IN  <<IF in_mod = 1 THEN FALSE ELSE res[1], res[2]>>

mc_upd_chk_amd(mc_upd_chk_rsl, in_ver, in_mod, g) ==
    LET res == mc_upd_chk_amd_loop(mc_upd_chk_rsl, 1, <<TRUE, None>>, in_ver, g)
    IN  <<IF in_mod = 1 THEN FALSE ELSE res[1], res[2]>>

----------------------------------------------------------------------------
(* Function-level harness: the inputs are drawn at Init, one action        *)
(* applies the function and records what it returns.                       *)

MaxData == 8        \* longest buffer handed to checksum32
MaxYear == 2030     \* last year handed to date_check
MaxRows == 2        \* most rows of a catalog lookup result

\* first year the Intel pattern lets through (pat_int: [\x93-\x99]\x19)
FirstYear == 1993

TestBytes == {0, 1, 255}

TestData == UNION {[1..n -> TestBytes] : n \in 0..MaxData}

\* months and days the vendor patterns let through (AMD: month up to 13)
TestMonths == 1..13
TestDays == 1..31

\* the comparator inputs: platform masks, revisions (production and, with bit 31
\* set, pre-release) and dates of the queried microcode and of the catalog rows
CandMasks == {0, 1, 2, 3}
RowMasks == {0, 2, 3}
CandVers == {<<0, 2>>, <<32768, 2>>}
RowVers == {<<0, 3>>, <<32768, 1>>}
CandDate == <<2016, 5, 10>>
RowDates == {<<2015, 12, 31>>, <<2016, 5, 10>>, <<2016, 6, 1>>}
TestCpuid == <<5, 1763>>    \* 0x000506E3

\* the yyyymmdd column of a date
DateText(d) == FmtD(d[1], 4) \o FmtD(d[2], 2) \o FmtD(d[3], 2)

\* a row of SELECT yyyymmdd,platform,version FROM Intel, from <<date, mask, revision>>
IntelEntry(r) == <<DateText(r[1]), FmtX8(<<0, r[2]>>), FmtX8(r[3])>>

\* a row of SELECT yyyymmdd,version FROM AMD, from <<date, mask, revision>>
AmdEntry(r) == <<DateText(r[1]), FmtX8(r[3])>>

IntelRsl(rows) == [i \in DOMAIN rows |-> IntelEntry(rows[i])]
AmdRsl(rows) == [i \in DOMAIN rows |-> AmdEntry(rows[i])]

IntelRows == RowDates \X RowMasks \X RowVers
AmdRows == RowDates \X {0} \X RowVers

SeqsUpTo(S, n) == UNION {[1..k -> S] : k \in 0..n}

\* the run modes the comparators are called in: the -last query passes in_mod = 0
TestModes == {<<FALSE, 0>>, <<FALSE, 1>>, <<TRUE, 0>>}

Globals(d, get_last) ==
    [year |-> FmtD(d[1], 4), month |-> FmtD(d[2], 2), day |-> FmtD(d[3], 2),
     cpu_id |-> TestCpuid, get_last |-> get_last]

Rel(ver) == IF CIntNegative(ver) THEN "PRE" ELSE "PRD"

Idle == [fn |-> "none"]

ChecksumCalls == {[fn |-> "checksum32", data |-> d, done |-> FALSE, ret |-> None] : d \in TestData}

DateCalls ==
    {[fn |-> "date_check", y |-> y, m |-> m, d |-> d, done |-> FALSE, ret |-> None] :
        y \in FirstYear..MaxYear, m \in TestMonths, d \in TestDays}

IntelCalls ==
    {[fn |-> "mc_upd_chk_intel", rows |-> r, plat |-> p, in_ver |-> v, in_mod |-> md[2],
      date |-> CandDate, get_last |-> md[1], done |-> FALSE, ret |-> None] :
        r \in SeqsUpTo(IntelRows, MaxRows), p \in CandMasks, v \in CandVers, md \in TestModes}

AmdCalls ==
    {[fn |-> "mc_upd_chk_amd", rows |-> r, plat |-> 0, in_ver |-> v, in_mod |-> md[2],
      date |-> CandDate, get_last |-> md[1], done |-> FALSE, ret |-> None] :
        r \in SeqsUpTo(AmdRows, MaxRows), v \in CandVers, md \in TestModes}

\* the comparator as the script calls it (lines 1083, 1086, 1392, 1575)
UpdChk(c, rows) ==
    IF c.fn = "mc_upd_chk_intel"
    THEN mc_upd_chk_intel(IntelRsl(rows), intel_plat(c.plat), Rel(c.in_ver), c.in_ver, c.in_mod,
                          Globals(c.date, c.get_last))
    ELSE mc_upd_chk_amd(AmdRsl(rows), c.in_ver, c.in_mod, Globals(c.date, c.get_last))

CallChecksum32 ==
    /\ call.fn = "checksum32" /\ ~call.done
    /\ call' = [call EXCEPT !.done = TRUE, !.ret = checksum32(call.data)]
    /\ UNCHANGED pipeVars

CallDateCheck ==
    /\ call.fn = "date_check" /\ ~call.done
    /\ call' = [call EXCEPT !.done = TRUE,
                            !.ret = date_check(FmtD(call.y, 4), FmtD(call.m, 2), FmtD(call.d, 2))]
    /\ UNCHANGED pipeVars

CallUpdChkIntel ==
    /\ call.fn = "mc_upd_chk_intel" /\ ~call.done
    /\ call' = [call EXCEPT !.done = TRUE, !.ret = UpdChk(call, call.rows)]
    /\ UNCHANGED pipeVars

CallUpdChkAmd ==
    /\ call.fn = "mc_upd_chk_amd" /\ ~call.done
    /\ call' = [call EXCEPT !.done = TRUE, !.ret = UpdChk(call, call.rows)]
    /\ UNCHANGED pipeVars

\* no microcode iteration has run
NoMc == [vendor |-> "none", outcome |-> "none"]

\* the script not started
PipeIdle ==
    /\ db = None /\ param = None /\ source = <<>> /\ temp_mc_paths = <<>> /\ cur_count = 0
    /\ reading = <<>> /\ match_list = None /\ idx = 0 /\ pc = "idle" /\ mc_nr = 0 /\ msgs = <<>>
    /\ total = 0 /\ mc_conv_data = <<>> /\ disk = <<>> /\ mc = NoMc /\ exit_code = NoCode

InitFn == PipeIdle /\ call \in ChecksumCalls \cup DateCalls
NextFn == CallChecksum32 \/ CallDateCheck
SpecFn == InitFn /\ [][NextFn]_vars

InitUpd == PipeIdle /\ call \in IntelCalls \cup AmdCalls
NextUpd == CallUpdChkIntel \/ CallUpdChkAmd
SpecUpd == InitUpd /\ [][NextUpd]_vars

----------------------------------------------------------------------------
(* Bytes and structures                                                    *)

\* the little-endian 16-bit field of b at offset off
LE16(b, off) == b[off + 1] + 256 * b[off + 2]

\* the little-endian 32-bit field of b at offset off
LE32(b, off) == <<LE16(b, off + 2), LE16(b, off)>>

\* the big-endian 16-bit field of b at offset off
BE16(b, off) == 256 * b[off + 1] + b[off + 2]

\* the big-endian 32-bit field of b at offset off
BE32(b, off) == <<BE16(b, off), BE16(b, off + 2)>>

\* struct.pack('<I', v)
PackLE32(v) == <<v[2] % 256, v[2] \div 256, v[1] % 256, v[1] \div 256>>

\* n zero bytes
Zeros(n) == [i \in 1..n |-> 0]

\* b[a:b2] = repl on a bytearray, repl of the same length
PyAssign(b, a, repl) == [i \in DOMAIN b |-> IF i > a /\ i <= a + Len(repl) THEN repl[i - a] ELSE b[i]]

\* get_struct: the bytes the structure is filled from, None where the script exits
get_struct(input_stream, start_offset, struct_len, file_end) ==
    LET struct_data == PySlice(input_stream, start_offset, start_offset + struct_len)
        fit_len     == Min(Len(struct_data), struct_len)
    IN  IF start_offset >= file_end \/ fit_len < struct_len THEN None ELSE struct_data

\* a 32-bit value as its 32 bits, bit 0 first
Bits32(v) == [i \in 1..32 |-> IF i <= 16 THEN (v[2] \div (2 ^ (i - 1))) % 2
                                         ELSE (v[1] \div (2 ^ (i - 17))) % 2]

RECURSIVE BitsVal(_, _, _)
\* the number whose bits lo..hi (bit 0 first) are those of b
BitsVal(b, lo, hi) == IF lo > hi THEN 0 ELSE b[lo] + 2 * BitsVal(b, lo + 1, hi)

\* the 32-bit value of 32 bits
FromBits32(b) == <<BitsVal(b, 17, 32), BitsVal(b, 1, 16)>>

\* a ^ b on 32-bit values
Xor32(a, b) ==
    LET x == Bits32(a)
        y == Bits32(b)
    IN  FromBits32([i \in 1..32 |-> (x[i] + y[i]) % 2])

AllOnes == <<65535, 65535>>

----------------------------------------------------------------------------
(* zlib                                                                    *)

\* the CRC-32 polynomial 0xEDB88320 of zlib (reflected)
CrcPoly == Bits32(<<60856, 33568>>)

\* the CRC register (32 bits, bit 0 first) shifted right by one bit, the
\* polynomial added when a one falls out
CrcShift(reg) ==
    IF reg[1] = 1 THEN [i \in 1..32 |-> ((IF i < 32 THEN reg[i + 1] ELSE 0) + CrcPoly[i]) % 2]
    ELSE [i \in 1..32 |-> IF i < 32 THEN reg[i + 1] ELSE 0]

\* the register after one more byte
CrcByte(reg, byte) ==
    LET x == [i \in 1..32 |-> IF i <= 8 THEN (reg[i] + ((byte \div (2 ^ (i - 1))) % 2)) % 2 ELSE reg[i]]
    IN  CrcShift(CrcShift(CrcShift(CrcShift(CrcShift(CrcShift(CrcShift(CrcShift(x))))))))

RECURSIVE CrcLoop(_, _, _, _)
\* the register after the bytes lo..hi of data, in order
CrcLoop(data, lo, hi, reg) ==
    IF lo > hi THEN reg
    ELSE IF lo = hi THEN CrcByte(reg, data[lo])
    ELSE LET mid  == (lo + hi) \div 2
             left == CrcLoop(data, lo, mid, reg)
         IN  IF left = left THEN CrcLoop(data, mid + 1, hi, left) ELSE left

\* zlib.crc32(data, value): value is the running checksum, the register is its complement
zlib_crc32(data, value) ==
    LET reg == CrcLoop(data, 1, Len(data), [i \in 1..32 |-> 1 - Bits32(value)[i]])
    IN  FromBits32([i \in 1..32 |-> 1 - reg[i]])

\* a plausible slip: the starting value left at its default
crc32_noiv(data, iv) == Mask32(zlib_crc32(data, U32Zero))

crc32(data, iv) == Mask32(zlib_crc32(data, iv))

RECURSIVE AdlerLoop(_, _, _, _)
\* the sums <<b, a>> after the bytes lo..hi of data, in order
AdlerLoop(data, lo, hi, ba) ==
    IF lo > hi THEN ba
    ELSE IF lo = hi
         THEN LET a2 == (ba[2] + data[lo]) % 65521
              IN  <<(ba[1] + a2) % 65521, a2>>
    ELSE LET mid  == (lo + hi) \div 2
             left == AdlerLoop(data, lo, mid, ba)
         IN  IF left = left THEN AdlerLoop(data, mid + 1, hi, left) ELSE left

\* zlib.adler32(data, value): the sums modulo 65521, b in the high half
zlib_adler32(data, value) == AdlerLoop(data, 1, Len(data), value)

\* a plausible slip: the running sum b left out
adler32_nob(data) == <<0, zlib_adler32(data, <<0, 1>>)[2]>>

adler32(data) == Mask32(zlib_adler32(data, <<0, 1>>))


----------------------------------------------------------------------------
(* Formatting of names and paths (a str is its sequence of character codes) *)

\* '%0.<w>X' % v for a 32-bit v
FmtX32(v, w) ==
    IF v[1] = 0 THEN FmtX(v[2], w)
    ELSE FmtX(v[1], IF w > 4 THEN w - 4 ELSE 1) \o FmtX(v[2], 4)

\* '%s-%s-%s' % (year, month, day)
full_date_of(year, month, day) == year \o <<45>> \o month \o <<45>> \o day

\* 'cpu%0.5X_plat%0.2X_ver%0.8X_%s_%s_%0.8X' % (cpu_id, plat, patch_u, full_date, rel_file, mc_chk)
intel_mc_name(cpu_id, plat, patch_u, full_date, rel_file, mc_chk) ==
    <<99, 112, 117>> \o FmtX32(cpu_id, 5) \o <<95, 112, 108, 97, 116>> \o FmtX(plat, 2) \o <<95, 118, 101, 114>> \o FmtX32(patch_u, 8)
    \o <<95>> \o full_date \o <<95>> \o (IF rel_file = "PRD" THEN <<80, 82, 68>> ELSE <<80, 82, 69>>)
    \o <<95>> \o FmtX32(mc_chk, 8)

\* 'cpu%s_ver%0.8X_%s_%0.8X' % (cpu_id, patch, full_date, mc_chk_mce)
amd_mc_name(cpu_id, patch, full_date, mc_chk_mce) ==
    <<99, 112, 117>> \o cpu_id \o <<95, 118, 101, 114>> \o FmtX32(patch, 8) \o <<95>> \o full_date \o <<95>> \o FmtX32(mc_chk_mce, 8)

\* 'cpu%0.5X_ver%0.8X_sig[%s]_%s_%0.8X' % (cpu_id, patch, name, full_date, mc_chk)
via_mc_name(cpu_id, patch, name, full_date, mc_chk) ==
    <<99, 112, 117>> \o FmtX32(cpu_id, 5) \o <<95, 118, 101, 114>> \o FmtX32(patch, 8) \o <<95, 115, 105, 103, 91>> \o name \o <<93, 95>>
    \o full_date \o <<95>> \o FmtX32(mc_chk, 8)

\* 'soc%s_rev%s.%s_sig[%s]_%0.8X' % (model, major, minor, name, mc_chk)
fsl_mc_name(model, major, minor, name, mc_chk) ==
    <<115, 111, 99>> \o model \o <<95, 114, 101, 118>> \o FmtD(major, 1) \o <<46>> \o FmtD(minor, 1) \o <<95, 115, 105, 103, 91>> \o name
    \o <<93, 95>> \o FmtX32(mc_chk, 8)

\* the extraction directories, relative to mce_dir
extr_dir_int == <<69, 120, 116, 114, 97, 99, 116, 101, 100, 47, 73, 110, 116, 101, 108, 47>>
extr_dir_amd == <<69, 120, 116, 114, 97, 99, 116, 101, 100, 47, 65, 77, 68, 47>>
extr_dir_via == <<69, 120, 116, 114, 97, 99, 116, 101, 100, 47, 86, 73, 65, 47>>
extr_dir_fsl == <<69, 120, 116, 114, 97, 99, 116, 101, 100, 47, 70, 114, 101, 101, 115, 99, 97, 108, 101, 47>>

\* '%s!Bad_%s.bin', '%s!New_%s.bin' and '%s%s.bin' % (extr_dir, mc_name)
BadPath(extr_dir, mc_name) == extr_dir \o <<33, 66, 97, 100, 95>> \o mc_name \o <<46, 98, 105, 110>>
NewPath(extr_dir, mc_name) == extr_dir \o <<33, 78, 101, 119, 95>> \o mc_name \o <<46, 98, 105, 110>>
PlainPath(extr_dir, mc_name) == extr_dir \o mc_name \o <<46, 98, 105, 110>>

\* 'Extended_%s_%d_%0.8X.temp' % (os.path.basename(in_file), ext_idx + 1, Checksum), in mce_dir
ext_mc_path_of(in_file, ext_idx, chk) ==
    <<69, 120, 116, 101, 110, 100, 101, 100, 95>> \o in_file \o <<95>> \o FmtD(ext_idx + 1, 1) \o <<95>> \o FmtX32(chk, 8) \o <<46, 116, 101, 109, 112>>

\* 'Container_%s_%0.8X.temp' % (os.path.basename(in_file), adler32(mc_conv_data)), in mce_dir
cont_path_of(in_file, chk) == <<67, 111, 110, 116, 97, 105, 110, 101, 114, 95>> \o in_file \o <<95>> \o FmtX32(chk, 8) \o <<46, 116, 101, 109, 112>>

\* os.path.join(mce_dir, 'Warnings', '') + file_name
warn_name_of(in_file) == <<87, 97, 114, 110, 105, 110, 103, 115, 47>> \o in_file

----------------------------------------------------------------------------
(* Files: disk maps a path to the content of the file at that path         *)

NoFiles == <<>>

isfile(d, path) == path \in DOMAIN d

\* open(path, 'wb').write(data)
WriteFile(d, path, data) == (path :> data) @@ d

\* os.remove(path)
RemoveFile(d, path) == [q \in DOMAIN d \ {path} |-> d[q]]

\* copy_file_with_warn: the disk after the input file is copied under Warnings/
copy_file_with_warn(d, in_file, rd, count) ==
    LET warn_name == warn_name_of(in_file)
    IN  IF isfile(d, warn_name)
        THEN IF adler32(d[warn_name]) = adler32(rd) THEN d
             ELSE WriteFile(d, warn_name \o <<95>> \o FmtD(count, 1), d[in_file])
        ELSE WriteFile(d, warn_name, d[in_file])

\* a plausible slip: the microcode written over the file of its name
save_mc_file_over(d, mce_ubu, mc_path, mc_data, mc_chk) ==
    IF mce_ubu THEN d ELSE WriteFile(d, mc_path, mc_data)

\* save_mc_file: the disk after the microcode is stored
save_mc_file(d, mce_ubu, mc_path, mc_data, mc_chk) ==
    IF mce_ubu THEN d
    ELSE IF isfile(d, mc_path)
         THEN IF mc_data = d[mc_path] THEN d
              ELSE WriteFile(d, PySlice(mc_path, 0, -4) \o <<95>> \o FmtX32(mc_chk, 8) \o <<46, 98, 105, 110>>, mc_data)
    ELSE WriteFile(d, mc_path, mc_data)

----------------------------------------------------------------------------
(* Detection patterns and the scanner                                      *)

\* [\x01-\x09\x10-\x19\x20-\x29\x30-\x31]
PatDay(c) == (1 <= c /\ c <= 9) \/ (16 <= c /\ c <= 25) \/ (32 <= c /\ c <= 41) \/ (48 <= c /\ c <= 49)

\* the bytes lo..hi (offsets from the start p of the match) are all c
AllAre(r, p, lo, hi, c) == \A k \in lo..hi : r[p + k + 1] = c

\* pat_int matches at offset p of r
pat_int(r, p) ==
    LET b(k) == r[p + k + 1]
    IN  /\ p + 48 <= Len(r)
        /\ b(0) = 1 /\ AllAre(r, p, 1, 3, 0)
        /\ \/ b(9) = 32 /\ ((0 <= b(8) /\ b(8) <= 9) \/ (16 <= b(8) /\ b(8) <= 25) \/ (32 <= b(8) /\ b(8) <= 37))
           \/ b(9) = 25 /\ 147 <= b(8) /\ b(8) <= 153
        /\ PatDay(b(10))
        /\ ((1 <= b(11) /\ b(11) <= 9) \/ (16 <= b(11) /\ b(11) <= 18))
        /\ b(15) = 0
        /\ b(20) \in {0, 1} /\ AllAre(r, p, 21, 23, 0)
        /\ AllAre(r, p, 25, 27, 0)
        /\ b(31) = 0
        /\ AllAre(r, p, 35, 47, 0)

\* pat_amd matches at offset p of r
pat_amd(r, p) ==
    LET b(k) == r[p + k + 1]
    IN  /\ p + 31 <= Len(r)
        /\ b(0) = 32
        /\ PatDay(b(1))
        /\ ((1 <= b(2) /\ b(2) <= 9) \/ (16 <= b(2) /\ b(2) <= 19))
        /\ 0 <= b(7) /\ b(7) <= 6
        /\ b(8) = 128
        /\ (AllAre(r, p, 15, 16, 0) \/ (b(15) = 34 /\ b(16) = 16))
        /\ (AllAre(r, p, 19, 20, 0) \/ (b(19) = 34 /\ b(20) = 16))
        /\ b(27) \in {0, 1}
        /\ (AllAre(r, p, 28, 30, 0) \/ AllAre(r, p, 28, 30, 170))

\* pat_via matches at offset p of r
pat_via(r, p) ==
    LET b(k) == r[p + k + 1]
    IN  /\ p + 36 <= Len(r)
        /\ b(0) = 82 /\ b(1) = 82 /\ b(2) = 65 /\ b(3) = 83
        /\ 214 <= b(8) /\ b(8) <= 233 /\ b(9) = 7
        /\ 1 <= b(10) /\ b(10) <= 31
        /\ 1 <= b(11) /\ b(11) <= 12
        /\ b(15) = 0
        /\ b(20) = 1 /\ AllAre(r, p, 21, 23, 0)
        /\ b(31) = 0
        /\ b(35) = 0

\* pat_fsl matches at offset p of r
pat_fsl(r, p) ==
    LET b(k) == r[p + k + 1]
    IN  /\ p + 120 <= Len(r)
        /\ b(0) = 81 /\ b(1) = 69 /\ b(2) = 70 /\ b(3) = 1
        /\ b(66) \in {0, 1}
        /\ AllAre(r, p, 72, 75, 0)
        /\ AllAre(r, p, 116, 119, 0)

\* the length of a match of the vendor's pattern
PatLen(vendor) == CASE vendor = "Intel" -> 48 [] vendor = "AMD" -> 31 [] vendor = "VIA" -> 36 [] OTHER -> 120

\* the offsets at which the vendor's pattern matches
PatHits(vendor, r) ==
    {p \in 0..(Len(r) - 1) : CASE vendor = "Intel" -> pat_int(r, p)
                               [] vendor = "AMD"   -> pat_amd(r, p)
                               [] vendor = "VIA"   -> pat_via(r, p)
                               [] OTHER            -> pat_fsl(r, p)}

RECURSIVE NonOverlapping(_, _, _)
\* the hits a left-to-right scan reports from offset from on: after a match the
\* scan resumes at its end
NonOverlapping(hits, len, from) ==
    LET rest == {p \in hits : p >= from}
    IN  IF rest = {} THEN <<>>
        ELSE LET p == CHOOSE q \in rest : \A x \in rest : q <= x
             IN  <<p>> \o NonOverlapping(hits, len, p + len)

\* a plausible slip: every offset at which the pattern matches
finditer_all(vendor, r) == NonOverlapping(PatHits(vendor, r), 1, 0)

\* [m.start() for m in pat.finditer(reading)]
finditer(vendor, r) == NonOverlapping(PatHits(vendor, r), PatLen(vendor), 0)

----------------------------------------------------------------------------
(* Header structures, read from the bytes get_struct copies                *)

Intel_MC_Header(d) ==
    [UpdateRevision |-> LE32(d, 4), Year |-> LE16(d, 8), Day |-> d[11], Month |-> d[12],
     ProcessorSignature |-> LE32(d, 12), Checksum |-> LE32(d, 16), PlatformIDs |-> d[25],
     DataSize |-> LE32(d, 28), TotalSize |-> LE32(d, 32)]

\* the fields of IntelMicrocodeHeaderExtraBase the script reads
IntelMicrocodeHeaderExtra(d) ==
    [present |-> TRUE, Flags |-> LE16(d, 8), UpdateRevision |-> LE32(d, 12),
     cpuids |-> {LE32(d, 36 + 4 * k) : k \in 0..7}]

\* mc_hdr_extra = None
NoExtra == [present |-> FALSE]

\* get_flags()[1]: the 7 reserved bits above the RSASigned bit
ExtraReservedFlags(e) == (e.Flags \div 2) % 128

Intel_MC_Header_Extended(d) ==
    [ExtendedSignatureCount |-> LE32(d, 0), ExtendedChecksum |-> LE32(d, 4),
     Reserved |-> PySlice(d, 8, 20)]

Intel_MC_Header_Extended_Field(d) ==
    [ProcessorSignature |-> LE32(d, 0), PlatformIDs |-> LE32(d, 4), Checksum |-> LE32(d, 8)]

AMD_MC_Header(d) ==
    [Year |-> LE16(d, 0), Day |-> d[3], Month |-> d[4], UpdateRevision |-> LE32(d, 4),
     DataSize |-> d[11], DataChecksum |-> LE32(d, 12),
     NorthBridgeVEN_ID |-> LE16(d, 16), NorthBridgeDEV_ID |-> LE16(d, 18),
     SouthBridgeVEN_ID |-> LE16(d, 20), SouthBridgeDEV_ID |-> LE16(d, 22),
     ProcessorSignature |-> LE16(d, 24), NorthBridgeREV_ID |-> d[27], SouthBridgeREV_ID |-> d[28]]

RECURSIVE CString(_)
\* the value of a ctypes char array: its bytes up to the first NUL
CString(b) == IF b = <<>> \/ b[1] = 0 THEN <<>> ELSE <<b[1]>> \o CString(Tail(b))

VIA_MC_Header(d) ==
    [UpdateRevision |-> LE32(d, 4), Year |-> LE16(d, 8), Day |-> d[11], Month |-> d[12],
     ProcessorSignature |-> LE32(d, 12), Checksum |-> LE32(d, 16), TotalSize |-> LE32(d, 32),
     Name |-> CString(PySlice(d, 36, 48))]

FSL_MC_Header(d) ==
    [TotalSize |-> BE32(d, 0), Name |-> CString(PySlice(d, 8, 70)), CountMC |-> d[72],
     Model |-> BE16(d, 72), Major |-> d[75], Minor |-> d[76],
     Reserved0 |-> BE32(d, 76), Reserved1 |-> BE32(d, 120)]

FSL_MC_Entry(d) == [Reserved0 |-> d[116], Reserved1 |-> BE32(d, 116)]

\* whitespace str.strip() removes
PySpace(c) == c \in {9, 10, 11, 12, 13, 28, 29, 30, 31, 32}

RECURSIVE LStrip(_)
LStrip(s) == IF s # <<>> /\ PySpace(s[1]) THEN LStrip(Tail(s)) ELSE s

RECURSIVE RStrip(_)
RStrip(s) == IF s # <<>> /\ PySpace(s[Len(s)]) THEN RStrip(SubSeq(s, 1, Len(s) - 1)) ELSE s

\* mc_hdr.Name.replace(b'\x7F', b'\x2E').decode('utf-8').strip(), for an ASCII name
via_name(Name) == LStrip(RStrip([i \in DOMAIN Name |-> IF Name[i] = 127 THEN 46 ELSE Name[i]]))

\* the bytes decode('utf-8') turns into the same code points
IsAscii(b) == \A i \in DOMAIN b : b[i] < 128

----------------------------------------------------------------------------
(* The catalog (MCE.db): each table is the sequence of its rows in ROWID   *)
(* order, a row the tuple of its columns                                   *)

EmptyDb == [Intel |-> <<>>, AMD |-> <<>>, VIA |-> <<>>, FSL |-> <<>>,
            MCE |-> <<[revision |-> 0, developer |-> 1]>>]

\* a catalog file without tables: the script has never opened it
BlankDb == [EmptyDb EXCEPT !.MCE = <<>>]

\* a catalog of revision 5 that is not a developer one
ReleasedDb == [EmptyDb EXCEPT !.MCE = <<[revision |-> 5, developer |-> 0]>>]

\* a plausible slip: the default row inserted whatever the MCE table holds
db_init_always(d) == [d EXCEPT !.MCE = Append(@, [revision |-> 0, developer |-> 1])]

\* the tables are made if they are not there, and the MCE table gets its default
\* row when it has none (lines 921-931)
db_init(d) ==
    IF d.MCE = <<>> THEN [d EXCEPT !.MCE = <<[revision |-> 0, developer |-> 1]>>] ELSE d

\* a plausible slip: the lookup never finds a record
fetchone_none(table, cols, vals) == None

\* a plausible slip: only the first of the columns asked for
fetchone_first(table, cols, vals) ==
    LET hit == {i \in DOMAIN table : table[i][cols[1]] = vals[1]}
    IN  IF hit = {} THEN None ELSE table[CHOOSE i \in hit : \A j \in hit : i <= j]

\* fetchone() of a SELECT *: the first row whose columns cols have the values vals
fetchone(table, cols, vals) ==
    LET hit == {i \in DOMAIN table : \A k \in DOMAIN cols : table[i][cols[k]] = vals[k]}
    IN  IF hit = {} THEN None ELSE table[CHOOSE i \in hit : \A j \in hit : i <= j]

\* db_new_MCE: the first addition to a release catalog bumps its revision
db_new_MCE(d) ==
    IF d.MCE[1].developer = 0
    THEN [d EXCEPT !.MCE[1] = [revision |-> d.MCE[1].revision + 1, developer |-> 1]]
    ELSE d

\* known_bad_intel
known_bad_intel ==
    {<<<<3, 1731>>, <<0, 153>>, <<50, 48, 49, 51, 45, 48, 49, 45, 50, 49>>>>,
     <<<<5, 1763>>, <<0, 255>>, <<50, 48, 49, 54, 45, 48, 49, 45, 48, 53>>>>,
     <<<<9, 1650>>, <<0, 255>>, <<50, 48, 50, 49, 45, 49, 49, 45, 49, 49>>>>,
     <<<<9, 1653>>, <<0, 255>>, <<50, 48, 50, 49, 45, 49, 49, 45, 49, 49>>>>}

\* a plausible slip: a next match at the very end counted as crossing
chk_mc_cross_le(match_ucode_idx, match_list_vendor, mc_bgn, mc_len) ==
    /\ match_ucode_idx + 1 < Len(match_list_vendor)
    /\ match_list_vendor[match_ucode_idx + 2] <= mc_bgn + mc_len

\* chk_mc_cross: the warning is due, the next match starting inside this microcode
chk_mc_cross(match_ucode_idx, match_list_vendor, mc_bgn, mc_len) ==
    /\ match_ucode_idx + 1 < Len(match_list_vendor)
    /\ match_list_vendor[match_ucode_idx + 2] < mc_bgn + mc_len

----------------------------------------------------------------------------
(* One iteration of a vendor loop.  The iteration reads the context c:     *)
(*   reading, in_file, is_temp (in_file in temp_mc_paths), param, db, disk,*)
(*   mc_nr, cur_count, source, temp (temp_mc_paths), list (the vendor's    *)
(*   match_list) and idx (match_ucode_idx)                                 *)
(* and yields what it leaves behind: exit (mce_exit(-1) was called), mc    *)
(* (the globals it assigned), msgs (what it appended to the vendor's msg   *)
(* list), mc_nr, db, disk, source and temp.                                *)

\* nothing changed but the globals assigned
Kept(c, m) ==
    [exit |-> FALSE, mc |-> m, msgs |-> <<>>, mc_nr |-> c.mc_nr, db |-> c.db, disk |-> c.disk,
     source |-> c.source, temp |-> c.temp]

\* get_struct failed: mce_exit(-1)
\* a plausible slip: the iteration abandoned, the run going on
Exited_on(c, m) == Kept(c, m)

Exited(c, m) == [Kept(c, m) EXCEPT !.exit = TRUE]

\* the candidate is skipped with a warning and the input file is copied to Warnings/
Skipped(c, m, kind) ==
    [Kept(c, m @@ [outcome |-> kind]) EXCEPT
        !.msgs = <<<<kind, m.mc_bgn>>>>,
        !.disk = copy_file_with_warn(c.disk, c.in_file, c.reading, c.cur_count)]

\* the disk after copy_file_with_warn, called when warn holds
WarnIf(warn, c, d) == IF warn THEN copy_file_with_warn(d, c.in_file, c.reading, c.cur_count) ELSE d

\* the message appended when cond holds
MsgIf(cond, kind, nr) == IF cond THEN <<<<kind, nr>>>> ELSE <<>>

\* a plausible slip: the allow-list not consulted
Classify_no_excuse(corrupted, excused, mc_data, mc_len_ok, mc_at_db, extr_dir, mc_name, nr) ==
    IF corrupted THEN [mc_path |-> BadPath(extr_dir, mc_name), msgs |-> <<<<"corrupted", nr>>>>]
    ELSE IF ~mc_len_ok
         THEN [mc_path |-> BadPath(extr_dir, mc_name), msgs |-> <<<<"truncated", nr>>>>]
    ELSE IF mc_at_db = None
         THEN [mc_path |-> NewPath(extr_dir, mc_name), msgs |-> <<<<"new", nr>>>>]
    ELSE [mc_path |-> PlainPath(extr_dir, mc_name), msgs |-> <<>>]

\* a plausible slip: the catalog asked before the length is looked at
Classify_new_first(corrupted, excused, mc_data, mc_len_ok, mc_at_db, extr_dir, mc_name, nr) ==
    IF corrupted
    THEN IF excused THEN [mc_path |-> PlainPath(extr_dir, mc_name), msgs |-> <<>>]
         ELSE [mc_path |-> BadPath(extr_dir, mc_name), msgs |-> <<<<"corrupted", nr>>>>]
    ELSE IF mc_at_db = None
         THEN [mc_path |-> NewPath(extr_dir, mc_name), msgs |-> <<<<"new", nr>>>>]
    ELSE IF ~mc_len_ok
         THEN [mc_path |-> BadPath(extr_dir, mc_name), msgs |-> <<<<"truncated", nr>>>>]
    ELSE [mc_path |-> PlainPath(extr_dir, mc_name), msgs |-> <<>>]

\* the classification shared by the vendor loops: the path and the message for a
\* microcode that is corrupted (unless excused), truncated, new or known
Classify(corrupted, excused, mc_data, mc_len_ok, mc_at_db, extr_dir, mc_name, nr) ==
    IF corrupted
    THEN IF excused THEN [mc_path |-> PlainPath(extr_dir, mc_name), msgs |-> <<>>]
         ELSE [mc_path |-> BadPath(extr_dir, mc_name), msgs |-> <<<<"corrupted", nr>>>>]
    ELSE IF ~mc_len_ok
         THEN [mc_path |-> BadPath(extr_dir, mc_name), msgs |-> <<<<"truncated", nr>>>>]
    ELSE IF mc_at_db = None
         THEN [mc_path |-> NewPath(extr_dir, mc_name), msgs |-> <<<<"new", nr>>>>]
    ELSE [mc_path |-> PlainPath(extr_dir, mc_name), msgs |-> <<>>]

----------------------------------------------------------------------------
(* Intel                                                                   *)

\* a plausible slip: the Platform IDs of the main header left in place
ext_replaced_noplat(mc_data, mc_hdr_ext_field) ==
    PyAssign(PyAssign(mc_data, 12, PackLE32(mc_hdr_ext_field.ProcessorSignature)),
             16, PackLE32(mc_hdr_ext_field.Checksum))

\* the container data with the CPUID, Checksum and Platform IDs of an Extended
\* Header field in place of the main header's (lines 1327-1330)
ext_replaced(mc_data, mc_hdr_ext_field) ==
    PyAssign(PyAssign(PyAssign(mc_data, 12, PackLE32(mc_hdr_ext_field.ProcessorSignature)),
                      16, PackLE32(mc_hdr_ext_field.Checksum)),
             24, PackLE32(mc_hdr_ext_field.PlatformIDs))

\* ExtendedSignatureCount as a loop bound: no file of the model holds 65536 fields
FieldCount(n) == IF n[1] > 0 THEN 65536 ELSE n[2]

\* the Extended Header and its fields (lines 1306-1338): x.fail when a get_struct
\* exits, x.made the fields materialised before that, in order
intel_extended(c, mc_data, mc_len_data, mc_at_db, mc_hdr_extra) ==
    LET mc_ext_off == 48 + mc_len_data
        hs         == get_struct(mc_data, mc_ext_off, 20, Len(c.reading))
    IN  IF hs = None
        THEN [fail |-> TRUE, reserved |-> FALSE, valid_ext_chk |-> U32Zero,
              ext_chk_mce |-> U32Zero, cpuid_chk |-> TRUE, made |-> <<>>]
        ELSE LET mc_hdr_ext       == Intel_MC_Header_Extended(hs)
                 ext_fields_count == FieldCount(mc_hdr_ext.ExtendedSignatureCount)
                 ext_header_size  == 20 + ext_fields_count * 12
                 ext_header_data  == PySlice(mc_data, 48 + mc_len_data, 48 + mc_len_data + ext_header_size)
                 ext_chk_mce      == adler32(ext_header_data)
                 field_off(k)     == mc_ext_off + 20 + 12 * k
                 fits(k)          == get_struct(mc_data, field_off(k), 12, Len(c.reading)) # None
                 n_fit            == Cardinality({k \in 0..(Min(ext_fields_count, Len(mc_data)) - 1) : fits(k)})
                 field(k)         == Intel_MC_Header_Extended_Field(
                                         get_struct(mc_data, field_off(k), 12, Len(c.reading)))
                 ext_mc_data(k)   == ext_replaced(mc_data, field(k))
             IN  [fail          |-> n_fit < ext_fields_count,
                  reserved      |-> mc_hdr_ext.Reserved # Zeros(12),
                  ext_chk_mce   |-> ext_chk_mce,
                  valid_ext_chk |-> IF mc_at_db # None /\ ext_chk_mce = py_int16(mc_at_db[8])
                                    THEN U32Zero ELSE checksum32(ext_header_data),
                  cpuid_chk     |-> \A k \in 0..(n_fit - 1) :
                                        ~(mc_hdr_extra.present
                                          /\ field(k).ProcessorSignature \notin mc_hdr_extra.cpuids),
                  made          |-> [k \in 1..n_fit |->
                                        [path |-> ext_mc_path_of(c.in_file, k - 1, field(k - 1).Checksum),
                                         data |-> ext_mc_data(k - 1)]]]

\* no Extended Header is looked at
NoExtended ==
    [fail |-> FALSE, reserved |-> FALSE, valid_ext_chk |-> U32Zero, ext_chk_mce |-> U32Zero,
     cpuid_chk |-> TRUE, made |-> <<>>]

RECURSIVE WriteAll(_, _, _)
\* the disk after the files made[k..] are written, in order
WriteAll(d, made, k) ==
    IF k > Len(made) THEN d ELSE WriteAll(WriteFile(d, made[k].path, made[k].data), made, k + 1)

\* the row INSERT INTO Intel adds (modded and notes at their defaults)
intel_row(cpu_id, plat, patch_u, yyyymmdd, mc_len, mc_chk, mc_chk_mce, ext_chk_mce) ==
    <<FmtX32(cpu_id, 8), FmtX(plat, 8), FmtX32(patch_u, 8), yyyymmdd, FmtX(mc_len, 8),
      FmtX32(mc_chk, 8), FmtX32(mc_chk_mce, 8), FmtX32(ext_chk_mce, 8), 0, <<>>>>

\* SELECT yyyymmdd,platform,version FROM Intel WHERE cpuid=? AND modded=0
intel_upd_rsl(table, cpuid) ==
    LET hit == SelectSeq(table, LAMBDA r : r[1] = cpuid /\ r[9] = 0)
    IN  [i \in DOMAIN hit |-> <<hit[i][4], hit[i][2], hit[i][3]>>]

\* the end of an iteration, shared by the vendor loops (Intel: lines 1361-1443):
\* the warnings, then under -add the catalog insertion, otherwise the
\* classification and the saved file. base is the result so far, m the globals
\* assigned, v what the vendor's code computed
Processed(c, base, m, v) ==
    LET warned == [base EXCEPT !.mc_nr = v.nr, !.msgs = v.msgs,
                               !.disk = WarnIf(v.msgs # <<>>, c, base.disk)]
    IN  IF c.param.build_db
        THEN IF m.mc_at_db = None /\ v.may_add
             THEN [warned EXCEPT !.mc = m @@ [outcome |-> "added"],
                                 !.db = [db_new_MCE(c.db) EXCEPT ![v.table] = Append(@, v.row)]]
             ELSE [warned EXCEPT !.mc = m @@ [outcome |-> "present"]]
        ELSE
        LET modded == m.mc_at_db # None /\ m.mc_is_mod # 0
            cls    == Classify(v.corrupted, v.excused, m.mc_data, v.mc_len_ok, m.mc_at_db,
                               v.extr_dir, m.mc_name, v.nr)
        IN  [warned EXCEPT
                !.mc   = m @@ [outcome |-> "saved", is_latest |-> v.upd[1], mc_latest |-> v.upd[2],
                               mc_chk_ok |-> v.mc_chk_ok, mc_path |-> cls.mc_path],
                !.msgs = v.msgs \o MsgIf(modded, "modded", v.nr) \o cls.msgs,
                !.disk = save_mc_file(warned.disk, c.param.mce_ubu, cls.mc_path, m.mc_data,
                                      m.mc_chk_mce)]

\* the vendor has no latest check: nothing is reported and mc_latest stays None
NoUpdChk == <<TRUE, None>>

\* a plausible slip: the microcodes of the temporary files added as well
intel_may_add_temp(c) == TRUE

\* 'in_file not in temp_mc_paths' (line 1370)
intel_may_add(c) == ~c.is_temp

\* a plausible slip: a Header discrepancy counted as a corruption
intel_verdict_strict(c, list, m, x, base) ==
    LET nr           == c.mc_nr + 1
        has_extra    == m.mc_hdr_extra.present
        known_bad    == <<m.cpu_id, m.patch, m.full_date>> \in known_bad_intel
        mc_patch_chk == ~(has_extra /\ m.patch # m.mc_hdr_extra.UpdateRevision /\ ~known_bad)
        mc_cpuid_chk == /\ ~(has_extra /\ m.cpu_id # U32Zero /\ m.cpu_id \notin m.mc_hdr_extra.cpuids)
                        /\ x.cpuid_chk
        reserved     == (has_extra /\ ExtraReservedFlags(m.mc_hdr_extra) # 0) \/ x.reserved
        mc_chk_ok    == IF m.mc_at_db # None /\ m.mc_chk_mce = py_int16(m.mc_at_db[7])
                        THEN U32Zero ELSE checksum32(m.mc_data)
    IN  Processed(c, base, m,
            [nr        |-> nr,
             msgs      |-> MsgIf(reserved, "reserved", nr) \o MsgIf(~mc_cpuid_chk, "cpuid", nr)
                           \o MsgIf(~mc_patch_chk, "patch", nr)
                           \o MsgIf(chk_mc_cross(c.idx, list, m.mc_bgn, m.mc_len), "cross", nr),
             may_add   |-> intel_may_add(c),
             table     |-> "Intel",
             row       |-> intel_row(m.cpu_id, m.plat, m.patch, m.year \o m.month \o m.day, m.mc_len,
                                     m.mc_chk, m.mc_chk_mce, m.ext_chk_mce),
             upd       |-> mc_upd_chk_intel(intel_upd_rsl(c.db.Intel, FmtX32(m.cpu_id, 8)),
                                            intel_plat(m.plat), m.rel_file, m.patch, m.mc_is_mod,
                                            [year |-> m.year, month |-> m.month, day |-> m.day,
                                             cpu_id |-> m.cpu_id, get_last |-> FALSE]),
             mc_chk_ok |-> mc_chk_ok,
             corrupted |-> \/ mc_chk_ok # U32Zero \/ m.valid_ext_chk # U32Zero
                           \/ ~mc_cpuid_chk \/ ~mc_patch_chk,
             excused   |-> known_bad,
             mc_len_ok |-> Len(m.mc_data) >= m.mc_len,
             extr_dir  |-> extr_dir_int])

\* lines 1361-1443, for the globals m and the Extended Header results x
intel_verdict(c, list, m, x, base) ==
    LET nr           == c.mc_nr + 1
        has_extra    == m.mc_hdr_extra.present
        known_bad    == <<m.cpu_id, m.patch, m.full_date>> \in known_bad_intel
        mc_patch_chk == ~(has_extra /\ m.patch # m.mc_hdr_extra.UpdateRevision /\ ~known_bad)
        mc_cpuid_chk == /\ ~(has_extra /\ m.cpu_id # U32Zero /\ m.cpu_id \notin m.mc_hdr_extra.cpuids)
                        /\ x.cpuid_chk
        reserved     == (has_extra /\ ExtraReservedFlags(m.mc_hdr_extra) # 0) \/ x.reserved
        mc_chk_ok    == IF m.mc_at_db # None /\ m.mc_chk_mce = py_int16(m.mc_at_db[7])
                        THEN U32Zero ELSE checksum32(m.mc_data)
    IN  Processed(c, base, m,
            [nr        |-> nr,
             msgs      |-> MsgIf(reserved, "reserved", nr) \o MsgIf(~mc_cpuid_chk, "cpuid", nr)
                           \o MsgIf(~mc_patch_chk, "patch", nr)
                           \o MsgIf(chk_mc_cross(c.idx, list, m.mc_bgn, m.mc_len), "cross", nr),
             may_add   |-> intel_may_add(c),
             table     |-> "Intel",
             row       |-> intel_row(m.cpu_id, m.plat, m.patch, m.year \o m.month \o m.day, m.mc_len,
                                     m.mc_chk, m.mc_chk_mce, m.ext_chk_mce),
             upd       |-> mc_upd_chk_intel(intel_upd_rsl(c.db.Intel, FmtX32(m.cpu_id, 8)),
                                            intel_plat(m.plat), m.rel_file, m.patch, m.mc_is_mod,
                                            [year |-> m.year, month |-> m.month, day |-> m.day,
                                             cpu_id |-> m.cpu_id, get_last |-> FALSE]),
             mc_chk_ok |-> mc_chk_ok,
             corrupted |-> mc_chk_ok # U32Zero \/ m.valid_ext_chk # U32Zero,
             excused   |-> known_bad,
             mc_len_ok |-> Len(m.mc_data) >= m.mc_len,
             extr_dir  |-> extr_dir_int])

\* lines 1340-1359: the names and the catalog identity
intel_named(c, list, m, x, base) ==
    LET rel_file == IF CIntNegative(m.patch) THEN "PRE" ELSE "PRD"
    IN  intel_verdict(c, list,
            m @@ [rel_file   |-> rel_file,
                  mc_name    |-> intel_mc_name(m.cpu_id, m.plat, m.patch, m.full_date, rel_file,
                                               m.mc_chk),
                  mc_is_mod  |-> IF m.mc_at_db # None THEN m.mc_at_db[9] ELSE 0,
                  mc_chk_mce |-> adler32(m.mc_data)],
            x, base)

\* the state after the Extended Header was read (x): the fields materialised are
\* on disk and in the input list, also when a get_struct then exits
intel_after_extended(c, list, m, x) ==
    LET paths     == [k \in DOMAIN x.made |-> x.made[k].path]
        m1        == m @@ [valid_ext_chk |-> x.valid_ext_chk, ext_chk_mce |-> x.ext_chk_mce]
        after_ext == [Kept(c, m1) EXCEPT !.source = c.source \o paths, !.temp = c.temp \o paths,
                                         !.disk = WriteAll(c.disk, x.made, 1)]
    IN  IF x.fail THEN [after_ext EXCEPT !.exit = TRUE]
        ELSE IF c.param.print_hdr THEN [after_ext EXCEPT !.mc = m1 @@ [outcome |-> "info"]]
        ELSE intel_named(c, list, m1, x, after_ext)

\* the size of the Extra Header its signature at 0x30 tells, 0 without one
ExtraSize(sig) ==
    IF sig = <<0, 0, 0, 0, 161, 0, 0, 0>> THEN 644
    ELSE IF sig = <<0, 0, 0, 0, 224, 0, 0, 0>> THEN 896 ELSE 0

\* a plausible slip: the Extended Header read for every file
intel_with_catalog_any(c, list, m) ==
    intel_after_extended(c, list, m,
        IF m.mc_len > m.mc_len_data + 48
        THEN intel_extended(c, m.mc_data, m.mc_len_data, m.mc_at_db, m.mc_hdr_extra)
        ELSE NoExtended)

\* lines 1306-1338: the Extended Header is read for a file the script did not make
intel_with_catalog(c, list, m) ==
    intel_after_extended(c, list, m,
        IF m.mc_len > m.mc_len_data + 48 /\ ~c.is_temp
        THEN intel_extended(c, m.mc_data, m.mc_len_data, m.mc_at_db, m.mc_hdr_extra)
        ELSE NoExtended)

\* the body of the Intel loop from the Extra Header on (lines 1285-1304), for a
\* candidate whose date passed; m holds the globals assigned so far
intel_microcode(c, list, m) ==
    LET mc_data  == PySlice(c.reading, m.mc_bgn, m.mc_bgn + m.mc_len)
        extra_sz == ExtraSize(PySlice(mc_data, 48, 56))
        extra_hs == get_struct(mc_data, 48, extra_sz, Len(c.reading))
    IN  IF extra_sz # 0 /\ extra_hs = None THEN Exited(c, m)
        ELSE intel_with_catalog(c, list,
                 m @@ [mc_data      |-> mc_data,
                       mc_hdr_extra |-> IF extra_sz = 0 THEN NoExtra
                                        ELSE IntelMicrocodeHeaderExtra(extra_hs),
                       mc_at_db     |-> fetchone(c.db.Intel, <<1, 2, 3, 4, 5, 6>>,
                                            <<FmtX32(m.cpu_id, 8), FmtX(m.plat, 8),
                                              FmtX32(m.patch, 8), m.year \o m.month \o m.day,
                                              FmtX(m.mc_len, 8), FmtX32(m.mc_chk, 8)>>)])

\* the globals the Intel header gives (lines 1245-1273)
intel_header(mc_bgn, mc_hdr, year, day, month) ==
    [vendor |-> "Intel", mc_bgn |-> mc_bgn, patch |-> mc_hdr.UpdateRevision,
     year |-> year, day |-> day, month |-> month,
     cpu_id |-> mc_hdr.ProcessorSignature, plat |-> mc_hdr.PlatformIDs,
     mc_len |-> IF mc_hdr.TotalSize = U32Zero THEN 2048 ELSE U32Int(mc_hdr.TotalSize),
     mc_len_data |-> IF mc_hdr.DataSize = U32Zero THEN 2000 ELSE U32Int(mc_hdr.DataSize),
     mc_chk |-> mc_hdr.Checksum, full_date |-> full_date_of(year, month, day)]

\* lines 1275-1283: a candidate with an impossible date is skipped
intel_dated(c, list, m) ==
    IF ~date_check(m.year, m.month, m.day) THEN Skipped(c, m, "skip_date")
    ELSE intel_microcode(c, list, m)

\* lines 1245-1273, for the header bytes hs
intel_parsed(c, list, mc_bgn, mc_hdr) ==
    intel_dated(c, list, intel_header(mc_bgn, mc_hdr, FmtX(mc_hdr.Year, 4), FmtX(mc_hdr.Day, 2),
                                      FmtX(mc_hdr.Month, 2)))

\* one iteration of the Intel loop (lines 1239-1443)
intel_iteration(c, list) ==
    LET hs == get_struct(c.reading, list[c.idx + 1], 48, Len(c.reading))
    IN  IF hs = None THEN Exited(c, [vendor |-> "Intel", mc_bgn |-> list[c.idx + 1]])
        ELSE intel_parsed(c, list, list[c.idx + 1], Intel_MC_Header(hs))

----------------------------------------------------------------------------
(* AMD                                                                     *)

\* a 32-bit size or count as a number, capped above the length of every file of the model
SizeCap(v) == IF v[1] > 0 THEN 65536 ELSE v[2]

\* any(h in s for h in ['A','B','C','D','E','F']) on a string of hexadecimal digits
HasHexLetter(s) == \E i \in DOMAIN s : s[i] >= 65

\* the size of an AMD microcode by DataSize and generation (lines 1521-1535), -1 when unknown
amd_mc_len(mc_len_data, gen) ==
    IF mc_len_data = <<50, 48>> THEN 960
    ELSE IF mc_len_data = <<49, 48>> THEN 512
    ELSE IF gen \in {<<53, 48>>} THEN 1568
    ELSE IF gen \in {<<53, 56>>} THEN 1383
    ELSE IF gen \in {<<54, 48>>, <<54, 49>>, <<54, 51>>, <<54, 54>>, <<54, 55>>} THEN 2592
    ELSE IF gen \in {<<54, 56>>, <<54, 57>>} THEN 2432
    ELSE IF gen \in {<<55, 48>>, <<55, 51>>} THEN 3424
    ELSE IF gen \in {<<56, 48>>, <<56, 49>>, <<56, 50>>, <<56, 51>>, <<56, 53>>, <<56, 54>>, <<56, 55>>} THEN 3200
    ELSE IF gen \in {<<56, 65>>} THEN 3456
    ELSE IF gen \in {<<65, 48>>, <<65, 49>>, <<65, 50>>, <<65, 51>>, <<65, 52>>, <<65, 53>>, <<65, 54>>, <<65, 65>>} THEN 5568
    ELSE -1

\* the row INSERT INTO AMD adds (modded and notes at their defaults)
amd_row(cpu_id, nb_id, sb_id, nbsb_rev_id, patch, yyyymmdd, mc_len, mc_chk, mc_chk_mce) ==
    <<cpu_id, nb_id, sb_id, nbsb_rev_id, FmtX32(patch, 8), yyyymmdd, FmtX(mc_len, 8),
      FmtX32(mc_chk, 8), FmtX32(mc_chk_mce, 8), 0, <<>>>>

\* a plausible slip: the chipset IDs also asked for
amd_upd_rsl_chipset(table, m) ==
    LET hit == SelectSeq(table, LAMBDA r : r[1] = m.cpu_id /\ r[2] = m.nb_id /\ r[3] = m.sb_id
                                           /\ r[4] = m.nbsb_rev_id)
    IN  [i \in DOMAIN hit |-> <<hit[i][6], hit[i][5]>>]

\* SELECT yyyymmdd,version FROM AMD WHERE cpuid=?
amd_upd_rsl(table, m) ==
    LET hit == SelectSeq(table, LAMBDA r : r[1] = m.cpu_id)
    IN  [i \in DOMAIN hit |-> <<hit[i][6], hit[i][5]>>]

\* a plausible slip: the check made for the families before 16h only (the high
\* byte of ProcessorSignature below 0x70), whatever DataChecksum is
amd_chk_ok_family(mc_at_db, mc_chk_mce, mc_chk, mc_data) ==
    IF mc_at_db # None /\ mc_chk_mce = py_int16(mc_at_db[9]) THEN U32Zero
    ELSE IF mc_data[26] < 112 THEN Mask32(BigAdd(checksum32(PyFrom(mc_data, 64)), mc_chk))
    ELSE U32Zero

\* a plausible slip: the sum of the dwords added to DataChecksum, not its negation
amd_chk_ok_plus(mc_at_db, mc_chk_mce, mc_chk, mc_data) ==
    IF mc_at_db # None /\ mc_chk_mce = py_int16(mc_at_db[9]) THEN U32Zero
    ELSE IF mc_chk # U32Zero THEN Mask32(BigAdd(NegMask32(checksum32(PyFrom(mc_data, 64))), mc_chk))
    ELSE U32Zero

\* a plausible slip: the catalog not asked, the sum always made
amd_chk_ok_nodb(mc_at_db, mc_chk_mce, mc_chk, mc_data) ==
    IF mc_chk # U32Zero THEN Mask32(BigAdd(checksum32(PyFrom(mc_data, 64)), mc_chk))
    ELSE U32Zero

\* a plausible slip: the whole region summed, as for Intel and VIA
amd_chk_ok_whole(mc_at_db, mc_chk_mce, mc_chk, mc_data) ==
    IF mc_at_db # None /\ mc_chk_mce = py_int16(mc_at_db[9]) THEN U32Zero
    ELSE checksum32(mc_data)

\* the AMD check (lines 1608-1610): the Adler-32 of the catalog, else the sum of
\* the data from 0x40 on against DataChecksum, else nothing
amd_chk_ok(mc_at_db, mc_chk_mce, mc_chk, mc_data) ==
    IF mc_at_db # None /\ mc_chk_mce = py_int16(mc_at_db[9]) THEN U32Zero
    ELSE IF mc_chk # U32Zero THEN Mask32(BigAdd(checksum32(PyFrom(mc_data, 64)), mc_chk))
    ELSE U32Zero

\* lines 1543-1624, for the globals m
amd_verdict(c, list, m) ==
    LET nr        == c.mc_nr + 1
        mc_chk_ok == amd_chk_ok(m.mc_at_db, m.mc_chk_mce, m.mc_chk, m.mc_data)
    IN  Processed(c, Kept(c, m), m,
            [nr        |-> nr,
             msgs      |-> MsgIf(chk_mc_cross(c.idx, list, m.mc_bgn, m.mc_len), "cross", nr),
             may_add   |-> TRUE,
             table     |-> "AMD",
             row       |-> amd_row(m.cpu_id, m.nb_id, m.sb_id, m.nbsb_rev_id, m.patch,
                                   m.year \o m.month \o m.day, m.mc_len, m.mc_chk, m.mc_chk_mce),
             upd       |-> mc_upd_chk_amd(amd_upd_rsl(c.db.AMD, m), m.patch, m.mc_is_mod,
                                          [year |-> m.year, month |-> m.month, day |-> m.day,
                                           cpu_id |-> m.cpu_id, get_last |-> FALSE]),
             mc_chk_ok |-> mc_chk_ok,
             corrupted |-> mc_chk_ok # U32Zero,
             excused   |-> FALSE,
             mc_len_ok |-> Len(m.mc_data) >= m.mc_len,
             extr_dir  |-> extr_dir_amd])

\* lines 1537-1553, for the data and its Adler-32
amd_named(c, list, m, mc_data, mc_chk_mce) ==
    LET mc_at_db == fetchone(c.db.AMD, <<1, 2, 3, 4, 5, 6, 7, 8, 9>>,
                             <<m.cpu_id, m.nb_id, m.sb_id, m.nbsb_rev_id, FmtX32(m.patch, 8),
                               m.year \o m.month \o m.day, FmtX(m.mc_len, 8), FmtX32(m.mc_chk, 8),
                               FmtX32(mc_chk_mce, 8)>>)
    IN  amd_verdict(c, list,
            m @@ [mc_data |-> mc_data, mc_chk_mce |-> mc_chk_mce,
                  mc_name |-> amd_mc_name(m.cpu_id, m.patch, m.full_date, mc_chk_mce),
                  mc_at_db |-> mc_at_db,
                  mc_is_mod |-> IF mc_at_db # None THEN mc_at_db[10] ELSE 0])

\* a plausible slip: the data of a microcode that crosses over cut at the next one
amd_sized_cut(c, list, m, mc_len) ==
    IF mc_len = -1 THEN [Skipped(c, m, "skip_size") EXCEPT !.mc_nr = c.mc_nr + 1]
    ELSE LET mc_end == IF chk_mc_cross(c.idx, list, m.mc_bgn, mc_len)
                       THEN list[c.idx + 2] - 1 ELSE m.mc_bgn + mc_len
         IN  amd_named(c, list, m @@ [mc_len |-> mc_len],
                       PySlice(c.reading, m.mc_bgn, mc_end),
                       adler32(PySlice(c.reading, m.mc_bgn, mc_end)))

\* lines 1519-1537: an AMD microcode of unknown size is skipped, after its number
\* was taken
amd_sized(c, list, m, mc_len) ==
    IF mc_len = -1 THEN [Skipped(c, m, "skip_size") EXCEPT !.mc_nr = c.mc_nr + 1]
    ELSE amd_named(c, list, m @@ [mc_len |-> mc_len],
                   PySlice(c.reading, m.mc_bgn, m.mc_bgn + mc_len),
                   adler32(PySlice(c.reading, m.mc_bgn, m.mc_bgn + mc_len)))

\* lines 1494-1519: the date filter with its exception, null data, -info
amd_dated(c, list, m) ==
    LET bad_date == \/ HasHexLetter(PySlice(m.year, 2, 4))
                    \/ ~date_check(m.year, m.month, m.day)
                    \/ py_int(m.year) > 2025
    IN  IF bad_date /\ <<m.full_date, m.patch>> # <<<<50, 48, 49, 49, 45, 49, 51, 45, 48, 57>>, <<768, 39>>>>
        THEN Skipped(c, m, "skip_date")
        ELSE IF PySlice(c.reading, m.mc_bgn + 64, m.mc_bgn + 68) = Zeros(4)
        THEN Skipped(c, m, "skip_null")
        ELSE IF c.param.print_hdr THEN Kept(c, m @@ [outcome |-> "info"])
        ELSE amd_sized(c, list, m, amd_mc_len(m.mc_len_data, PySlice(m.cpu_id, 2, 4)))

\* lines 1491-1492: two microcodes whose header date is known to be wrong
amd_fixed(cpu_id, patch, year, month, day) ==
    IF <<cpu_id, patch, year>> = <<<<48, 48, 56, 48, 48, 70, 49, 49>>, <<2048, 4357>>, <<50, 48, 49, 54>>>>
    THEN <<<<50, 48, 49, 55>>, month, day>>
    ELSE IF <<cpu_id, patch, month, day>> = <<<<48, 48, 55, 51, 48, 70, 48, 49>>, <<1795, 262>>, <<48, 57>>, <<48, 50>>>>
    THEN <<year, <<48, 50>>, <<48, 57>>>>
    ELSE <<year, month, day>>

\* the globals the AMD header gives (lines 1465-1492), date = <<year, month, day>>
amd_header(mc_bgn, mc_hdr, cpu_id, date) ==
    [vendor |-> "AMD", mc_bgn |-> mc_bgn, patch |-> mc_hdr.UpdateRevision,
     mc_len_data |-> FmtX(mc_hdr.DataSize, 2), year |-> date[1], month |-> date[2],
     day |-> date[3], cpu_id |-> cpu_id, mc_chk |-> mc_hdr.DataChecksum,
     nb_id |-> FmtX(mc_hdr.NorthBridgeDEV_ID, 4) \o FmtX(mc_hdr.NorthBridgeVEN_ID, 4),
     sb_id |-> FmtX(mc_hdr.SouthBridgeDEV_ID, 4) \o FmtX(mc_hdr.SouthBridgeVEN_ID, 4),
     nbsb_rev_id |-> FmtX(mc_hdr.NorthBridgeREV_ID, 2) \o FmtX(mc_hdr.SouthBridgeREV_ID, 2),
     full_date |-> full_date_of(date[1], date[2], date[3])]

\* cpu_id = '00' + cpu_id[:2] + '0F' + cpu_id[2:]
amd_cpu_id(sig) == <<48, 48>> \o PySlice(sig, 0, 2) \o <<48, 70>> \o PyFrom(sig, 2)

amd_parsed(c, list, mc_bgn, mc_hdr, cpu_id) ==
    amd_dated(c, list,
        amd_header(mc_bgn, mc_hdr, cpu_id,
                   amd_fixed(cpu_id, mc_hdr.UpdateRevision, FmtX(mc_hdr.Year, 4),
                             FmtX(mc_hdr.Month, 2), FmtX(mc_hdr.Day, 2))))

\* one iteration of the AMD loop (lines 1459-1624)
amd_iteration(c, list) ==
    LET hs == get_struct(c.reading, list[c.idx + 1] - 1, 32, Len(c.reading))
    IN  IF hs = None THEN Exited(c, [vendor |-> "AMD", mc_bgn |-> list[c.idx + 1] - 1])
        ELSE amd_parsed(c, list, list[c.idx + 1] - 1, AMD_MC_Header(hs),
                        amd_cpu_id(FmtX(AMD_MC_Header(hs).ProcessorSignature, 4)))

----------------------------------------------------------------------------
(* VIA                                                                     *)

\* the row INSERT INTO VIA adds (modded and notes at their defaults)
via_row(cpu_id, name, patch, yyyymmdd, mc_len, mc_chk, mc_chk_mce) ==
    <<FmtX32(cpu_id, 8), name, FmtX32(patch, 8), yyyymmdd, FmtX(mc_len, 8), FmtX32(mc_chk, 8),
      FmtX32(mc_chk_mce, 8), 0, <<>>>>

\* the two VIA microcodes whose wrong checksum is let through (lines 1732-1735)
via_excused ==
    {<<<<50, 48, 49, 49, 45, 48, 56, 45, 48, 57>>, <<48, 54, 70, 65, 48, 51, 66, 66, 48>>, <<39814, 63622>>>>,
     <<<<50, 48, 49, 49, 45, 48, 56, 45, 48, 57>>, <<48, 54, 70, 69, 49, 48, 53, 65>>, <<36665, 28531>>>>}

\* lines 1693-1748, for the globals m
via_verdict(c, list, m) ==
    LET nr        == c.mc_nr + 1
        mc_chk_ok == IF m.mc_at_db # None /\ m.mc_chk_mce = py_int16(m.mc_at_db[7])
                     THEN U32Zero ELSE checksum32(m.mc_data)
    IN  Processed(c, Kept(c, m), m,
            [nr        |-> nr,
             msgs      |-> MsgIf(chk_mc_cross(c.idx, list, m.mc_bgn, m.mc_len), "cross", nr),
             may_add   |-> TRUE,
             table     |-> "VIA",
             row       |-> via_row(m.cpu_id, m.name, m.patch, m.year \o m.month \o m.day, m.mc_len,
                                   m.mc_chk, m.mc_chk_mce),
             upd       |-> NoUpdChk,
             mc_chk_ok |-> mc_chk_ok,
             corrupted |-> mc_chk_ok # U32Zero,
             excused   |-> <<m.full_date, m.name, m.mc_chk>> \in via_excused,
             mc_len_ok |-> Len(m.mc_data) >= m.mc_len,
             extr_dir  |-> extr_dir_via])

\* lines 1676-1693, for the data of the microcode
via_named(c, list, m, mc_data) ==
    LET mc_at_db == fetchone(c.db.VIA, <<1, 2, 3, 4, 5, 6>>,
                             <<FmtX32(m.cpu_id, 8), m.name, FmtX32(m.patch, 8),
                               m.year \o m.month \o m.day, FmtX(m.mc_len, 8), FmtX32(m.mc_chk, 8)>>)
    IN  via_verdict(c, list,
            m @@ [mc_data |-> mc_data, mc_chk_mce |-> adler32(mc_data),
                  mc_name |-> via_mc_name(m.cpu_id, m.patch, m.name, m.full_date, m.mc_chk),
                  mc_at_db |-> mc_at_db,
                  mc_is_mod |-> IF mc_at_db # None THEN mc_at_db[8] ELSE 0])

\* lines 1664-1676: a candidate with an impossible date is skipped
via_dated(c, list, m) ==
    IF ~date_check(m.year, m.month, m.day) THEN Skipped(c, m, "skip_date")
    ELSE IF c.param.print_hdr THEN Kept(c, m @@ [outcome |-> "info"])
    ELSE via_named(c, list, m, PySlice(c.reading, m.mc_bgn, m.mc_bgn + m.mc_len))

\* the globals the VIA header gives (lines 1646-1662)
via_header(mc_bgn, mc_hdr, year, day, month) ==
    [vendor |-> "VIA", mc_bgn |-> mc_bgn, patch |-> mc_hdr.UpdateRevision, year |-> year,
     day |-> day, month |-> month, cpu_id |-> mc_hdr.ProcessorSignature,
     mc_len |-> U32Int(mc_hdr.TotalSize), mc_chk |-> mc_hdr.Checksum,
     name |-> via_name(mc_hdr.Name), full_date |-> full_date_of(year, month, day)]

\* a name that is not ASCII is taken to make decode('utf-8') raise, which ends the script
via_parsed(c, list, mc_bgn, mc_hdr) ==
    IF ~IsAscii(mc_hdr.Name) THEN Exited(c, [vendor |-> "VIA", mc_bgn |-> mc_bgn])
    ELSE via_dated(c, list, via_header(mc_bgn, mc_hdr, FmtD(mc_hdr.Year, 4), FmtD(mc_hdr.Day, 2),
                                       FmtD(mc_hdr.Month, 2)))

\* one iteration of the VIA loop (lines 1640-1748)
via_iteration(c, list) ==
    LET hs == get_struct(c.reading, list[c.idx + 1], 48, Len(c.reading))
    IN  IF hs = None THEN Exited(c, [vendor |-> "VIA", mc_bgn |-> list[c.idx + 1]])
        ELSE via_parsed(c, list, list[c.idx + 1], VIA_MC_Header(hs))

----------------------------------------------------------------------------
(* Freescale                                                               *)

\* the row INSERT INTO FSL adds (modded and notes at their defaults)
fsl_row(name, model, major, minor, mc_len, mc_chk, mc_chk_mce) ==
    <<name, model, major, minor, FmtX32(mc_len, 8), FmtX32(mc_chk, 8), FmtX32(mc_chk_mce, 8), 0, <<>>>>

\* a plausible slip: the CRC-32 as zlib.crc32(mc_data[:-4]) gives it
fsl_crc_zlib(mc_data) == crc32(PySlice(mc_data, 0, -4), U32Zero)

\* crc32(mc_data[:-4], 0xFFFFFFFF) ^ 0xFFFFFFFF
fsl_crc(mc_data) == Xor32(crc32(PySlice(mc_data, 0, -4), AllOnes), AllOnes)

\* lines 1806-1870, for the globals m
fsl_verdict(c, list, m) ==
    LET nr        == c.mc_nr + 1
        mc_chk_ok == IF m.mc_at_db # None /\ m.mc_chk_mce = py_int16(m.mc_at_db[7])
                     THEN m.mc_chk ELSE fsl_crc(m.mc_data)
    IN  Processed(c, Kept(c, m), m,
            [nr        |-> nr,
             msgs      |-> MsgIf(m.reserved, "reserved", nr)
                           \o MsgIf(chk_mc_cross(c.idx, list, m.mc_bgn, SizeCap(m.mc_len)),
                                    "cross", nr),
             may_add   |-> TRUE,
             table     |-> "FSL",
             row       |-> fsl_row(m.name, m.model, m.major, m.minor, m.mc_len, m.mc_chk,
                                   m.mc_chk_mce),
             upd       |-> NoUpdChk,
             mc_chk_ok |-> mc_chk_ok,
             corrupted |-> mc_chk_ok # m.mc_chk,
             excused   |-> FALSE,
             mc_len_ok |-> Len(m.mc_data) >= SizeCap(m.mc_len),
             extr_dir  |-> extr_dir_fsl])

\* lines 1806-1822: the name and the catalog identity
fsl_named(c, list, m) ==
    LET mc_at_db == fetchone(c.db.FSL, <<1, 2, 3, 4, 5, 6>>,
                             <<m.name, m.model, m.major, m.minor, FmtX32(m.mc_len, 8),
                               FmtX32(m.mc_chk, 8)>>)
    IN  fsl_verdict(c, list,
            m @@ [mc_name |-> fsl_mc_name(m.model, m.major, m.minor, m.name, m.mc_chk),
                  mc_at_db |-> mc_at_db,
                  mc_is_mod |-> IF mc_at_db # None THEN mc_at_db[8] ELSE 0,
                  mc_chk_mce |-> adler32(m.mc_data)])

\* lines 1786-1804: the entries of the header are read, each from mc_data
fsl_entries(c, list, m, count) ==
    LET entry(k) == get_struct(m.mc_data, 124 + 120 * k, 120, Len(c.reading))
    IN  IF \E k \in 0..(count - 1) : entry(k) = None THEN Exited(c, m)
        ELSE IF c.param.print_hdr THEN Kept(c, m @@ [outcome |-> "info"])
        ELSE fsl_named(c, list,
                 [m EXCEPT !.reserved =
                     @ \/ \E k \in 0..(count - 1) :
                              \/ FSL_MC_Entry(entry(k)).Reserved0 # 0
                              \/ FSL_MC_Entry(entry(k)).Reserved1 # U32Zero])

\* the globals the Freescale header gives (lines 1776-1790)
fsl_header(mc_bgn, mc_hdr, mc_data) ==
    [vendor |-> "FSL", mc_bgn |-> mc_bgn, name |-> mc_hdr.Name, model |-> FmtD(mc_hdr.Model, 4),
     major |-> mc_hdr.Major, minor |-> mc_hdr.Minor, mc_len |-> mc_hdr.TotalSize,
     mc_data |-> mc_data, mc_chk |-> FromBE(PySlice(mc_data, -4, Len(mc_data))),
     reserved |-> mc_hdr.Reserved0 # U32Zero \/ mc_hdr.Reserved1 # U32Zero]

\* a name that is not ASCII is taken to make decode('utf-8') raise, which ends the script
fsl_parsed(c, list, mc_bgn, mc_hdr) ==
    IF ~IsAscii(mc_hdr.Name) THEN Exited(c, [vendor |-> "FSL", mc_bgn |-> mc_bgn])
    ELSE fsl_entries(c, list,
             fsl_header(mc_bgn, mc_hdr,
                        PySlice(c.reading, mc_bgn, mc_bgn + SizeCap(mc_hdr.TotalSize))),
             mc_hdr.CountMC)

\* one iteration of the Freescale loop (lines 1764-1870)
fsl_iteration(c, list) ==
    LET hs == get_struct(c.reading, list[c.idx + 1] - 4, 124, Len(c.reading))
    IN  IF hs = None THEN Exited(c, [vendor |-> "FSL", mc_bgn |-> list[c.idx + 1] - 4])
        ELSE fsl_parsed(c, list, list[c.idx + 1] - 4, FSL_MC_Header(hs))

----------------------------------------------------------------------------
(* Intel containers (.dat and .inc text files, lines 1185-1229); bytes     *)
(* above 127 are taken as invalid UTF-8: ignored in the sample, an error   *)
(* in the strict read                                                      *)

\* the elements of a set of numbers in increasing order
Sorted(S) == [k \in 1..Cardinality(S) |-> CHOOSE x \in S : Cardinality({y \in S : y < x}) = k - 1]

\* text mode: '\r\n' and '\r' are read as '\n'
Universal(b) ==
    LET t == [i \in DOMAIN b |-> IF b[i] # 13 THEN b[i]
                                 ELSE IF i < Len(b) /\ b[i + 1] = 10 THEN -1 ELSE 10]
    IN  SelectSeq(t, LAMBDA ch : ch # -1)

\* the index of the last character of each line of s, in order
LineEnds(s) == Sorted({i \in DOMAIN s : s[i] = 10 \/ i = Len(s)})

\* readlines(): the lines of s, each with its '\n'
readlines(s) ==
    LET ends == LineEnds(s)
    IN  [k \in DOMAIN ends |-> SubSeq(s, IF k = 1 THEN 1 ELSE ends[k - 1] + 1, ends[k])]

\* readlines(hint): no line is read once the lines read exceed hint characters
readlines_hint(s, hint) ==
    LET ends == LineEnds(s)
        over == {k \in DOMAIN ends : ends[k] > hint}
        last == IF over = {} THEN Len(ends) ELSE CHOOSE k \in over : \A j \in over : k <= j
    IN  SubSeq(readlines(s), 1, last)

\* s.strip(chars)
PyStrip(s, chars) ==
    LET keep == {i \in DOMAIN s : s[i] \notin chars}
    IN  IF keep = {} THEN <<>>
        ELSE SubSeq(s, CHOOSE i \in keep : \A j \in keep : i <= j,
                       CHOOSE i \in keep : \A j \in keep : i >= j)

\* s.split(',')
PySplit(s) ==
    LET cuts == Sorted({i \in DOMAIN s : s[i] = 44}) \o <<Len(s) + 1>>
    IN  [k \in DOMAIN cuts |-> SubSeq(s, IF k = 1 THEN 1 ELSE cuts[k - 1] + 1, cuts[k] - 1)]

\* value.replace('\t','').replace('0x','').replace(' ','')
DatValue(value) ==
    LET a == SelectSeq(value, LAMBDA ch : ch # 9)
        b == [i \in DOMAIN a |->
                IF (a[i] = 48 /\ i < Len(a) /\ a[i + 1] = 120) \/ (a[i] = 120 /\ i > 1 /\ a[i - 1] = 48)
                THEN -1 ELSE a[i]]
    IN  SelectSeq(b, LAMBDA ch : ch # -1 /\ ch # 32)

\* the value of a hexadecimal digit of either case, -1 for another character
HexDigit(ch) ==
    IF 48 <= ch /\ ch <= 57 THEN ch - 48
    ELSE IF 65 <= ch /\ ch <= 70 THEN ch - 55
    ELSE IF 97 <= ch /\ ch <= 102 THEN ch - 87
    ELSE -1

\* int(s, 16).to_bytes(4, 'little') for a string of hexadecimal digits, None when
\* it raises (no digit, another character, or a value of more than 32 bits)
hex_dword(s) ==
    LET sig == {i \in DOMAIN s : s[i] # 48}
        n   == IF sig = {} THEN 0 ELSE Len(s) + 1 - (CHOOSE i \in sig : \A j \in sig : i <= j)
        p(k) == IF k <= 8 - n THEN 0 ELSE HexDigit(s[Len(s) - 8 + k])
    IN  IF s = <<>> \/ (\E i \in DOMAIN s : HexDigit(s[i]) = -1) \/ n > 8 THEN None
        ELSE PackLE32(<<p(1) * 4096 + p(2) * 256 + p(3) * 16 + p(4),
                        p(5) * 4096 + p(6) * 256 + p(7) * 16 + p(8)>>)

\* the first sample line that tells the type decides it
type_conv_of(sample) ==
    LET inc(k) == PySlice(sample[k], 0, 4) = <<100, 100, 32, 48>> /\ PySlice(sample[k], 12, 13) = <<104>>
        dat(k) == \E p \in 0..2 : PySlice(sample[k], p, p + 11) = <<48, 120, 48, 48, 48, 48, 48, 48, 48, 49, 44>>
        hits   == {k \in DOMAIN sample : inc(k) \/ dat(k)}
        first  == CHOOSE k \in hits : \A j \in hits : k <= j
    IN  IF hits = {} THEN "" ELSE IF inc(first) THEN ".inc" ELSE ".dat"

RECURSIVE JoinWhileOk(_, _)
\* the bytes of the parts up to the first one that raised; ok when none did
JoinWhileOk(parts, k) ==
    IF k > Len(parts) THEN [data |-> <<>>, ok |-> TRUE]
    ELSE IF parts[k] = None THEN [data |-> <<>>, ok |-> FALSE]
    ELSE LET rest == JoinWhileOk(parts, k + 1)
         IN  [data |-> parts[k] \o rest.data, ok |-> rest.ok]

\* what one line adds to mc_conv_data, and whether the line ends without an exception
conv_line(type_conv, raw) ==
    LET line == PyStrip(raw, {10, 32})
        head == PySlice(line, 0, 2) = <<48, 120>> /\ PySlice(line, 10, 11) = <<44>>
        four == PySlice(PySplit(line), 0, 4)
    IN  IF type_conv = ".dat"
        THEN IF line = <<>> THEN [data |-> <<>>, ok |-> FALSE]
             ELSE IF line[1] = 47 THEN [data |-> <<>>, ok |-> TRUE]
             ELSE IF Len(line) >= 47 /\ head
                  THEN JoinWhileOk([k \in DOMAIN four |-> hex_dword(DatValue(four[k]))], 1)
             ELSE IF Len(line) >= 11 /\ head
                  THEN JoinWhileOk(<<hex_dword(PySlice(line, 2, 10))>>, 1)
             ELSE [data |-> <<>>, ok |-> TRUE]
        ELSE IF Len(line) >= 13 /\ PySlice(line, 0, 4) = <<100, 100, 32, 48>> /\ PySlice(line, 12, 13) = <<104>>
             THEN JoinWhileOk(<<hex_dword(PySlice(line, 4, 12))>>, 1)
        ELSE [data |-> <<>>, ok |-> TRUE]

RECURSIVE conv_lines(_, _, _, _)
\* mc_conv_data after the lines lo..hi: the conversion stops at the first exception
conv_lines(type_conv, lines, lo, hi) ==
    IF lo > hi THEN [data |-> <<>>, ok |-> TRUE]
    ELSE IF lo = hi THEN conv_line(type_conv, lines[lo])
    ELSE LET mid  == (lo + hi) \div 2
             left == conv_lines(type_conv, lines, lo, mid)
         IN  IF ~left.ok THEN left
             ELSE LET right == conv_lines(type_conv, lines, mid + 1, hi)
                  IN  [data |-> left.data \o right.data, ok |-> right.ok]

\* mc_conv_data for the content of an input file
mc_conv_data_of(content) ==
    LET text      == Universal(content)
        sample    == readlines_hint(Universal(SelectSeq(content, LAMBDA ch : ch < 128)), 2048)
        type_conv == type_conv_of(sample)
        lines     == readlines(text)
    IN  IF type_conv = "" \/ ~IsAscii(content) THEN <<>>
        ELSE conv_lines(type_conv, lines, 1, Len(lines)).data



----------------------------------------------------------------------------
(* The input files of the model: microcode images built field by field,    *)
(* one microcode per file unless said otherwise                            *)

\* struct.pack('>I', v)
PackBE32(v) == <<v[1] \div 256, v[1] % 256, v[2] \div 256, v[2] % 256>>

\* a name in a char array of n bytes
Padded(name, n) == name \o Zeros(n - Len(name))

\* an Intel header with a zero Checksum (Intel_MC_Header)
IntelHeader(rev, year, day, month, sig, plat, data_size, total_size) ==
    <<1, 0, 0, 0>> \o PackLE32(rev) \o <<year % 256, year \div 256, day, month>> \o PackLE32(sig)
    \o Zeros(4) \o <<1, 0, 0, 0>> \o <<plat, 0, 0, 0>> \o PackLE32(<<0, data_size>>)
    \o PackLE32(<<0, total_size>>) \o Zeros(12)

\* the image with the Checksum field at 0x10 chosen for a zero sum (Intel, VIA)
Sealed(image) == PyAssign(image, 16, PackLE32(checksum32(image)))

\* an Intel microcode of 4 data bytes with an Extended Header of one field,
\* every checksum right
IntelExtended(rev, year, day, month, sig, plat, sig2, plat2) ==
    LET data   == <<7, 0, 0, 0>>
        hdr(s, p) == IntelHeader(rev, year, day, month, s, p, 4, 84)
        chk2   == checksum32(hdr(sig2, plat2) \o data)
        field  == PackLE32(sig2) \o <<plat2, 0, 0, 0>> \o PackLE32(chk2)
        ext0   == <<1, 0, 0, 0>> \o Zeros(16) \o field
        ext    == PyAssign(ext0, 4, PackLE32(checksum32(ext0)))
    IN  Sealed(hdr(sig, plat) \o data \o ext)

\* an Intel microcode whose data is an Extra Header (R1) with the update
\* revision rev2 and one CPUID, sig2
IntelExtra(rev, year, day, month, sig, plat, rev2, sig2) ==
    Sealed(IntelHeader(rev, year, day, month, sig, plat, 644, 692)
           \o <<0, 0, 0, 0, 161, 0, 0, 0>> \o Zeros(4) \o PackLE32(rev2) \o Zeros(20)
           \o PackLE32(sig2) \o Zeros(28) \o Zeros(576))

\* the same with the field's Platform IDs as a dword
IntelExtendedWith(rev, year, day, month, sig, plat, sig2, plat2) ==
    LET data   == <<7, 0, 0, 0>>
        hdr    == IntelHeader(rev, year, day, month, sig, plat, 4, 84)
        hdr2   == PyAssign(PyAssign(hdr, 12, PackLE32(sig2)), 24, PackLE32(plat2))
        chk2   == checksum32(hdr2 \o data)
        field  == PackLE32(sig2) \o PackLE32(plat2) \o PackLE32(chk2)
        ext0   == <<1, 0, 0, 0>> \o Zeros(16) \o field
        ext    == PyAssign(ext0, 4, PackLE32(checksum32(ext0)))
    IN  Sealed(hdr \o data \o ext)

\* the same with the checksum of the Extended Header left at 0
IntelExtendedBad(rev, year, day, month, sig, plat, sig2, plat2) ==
    LET data   == <<7, 0, 0, 0>>
        hdr(s, p) == IntelHeader(rev, year, day, month, s, p, 4, 84)
        chk2   == checksum32(hdr(sig2, plat2) \o data)
        field  == PackLE32(sig2) \o <<plat2, 0, 0, 0>> \o PackLE32(chk2)
    IN  Sealed(hdr(sig, plat) \o data \o <<1, 0, 0, 0>> \o Zeros(16) \o field)

\* an AMD header with a zero DataChecksum (AMD_MC_Header)
AmdHeader(rev, year, day, month, data_size, nb, sb, sig) ==
    <<year % 256, year \div 256, day, month>> \o PackLE32(rev) \o <<0, 128, data_size, 0>>
    \o Zeros(4) \o PackLE32(nb) \o PackLE32(sb) \o <<sig % 256, sig \div 256, 0, 0>> \o Zeros(4)

\* an AMD microcode of n bytes: the header, zeros up to 0x40, then data
AmdImage(hdr, n) == hdr \o Zeros(32) \o <<4, 3, 2, 1>> \o Zeros(n - 68)

\* the image with DataChecksum the sum of the dwords from 0x40 on
AmdSealed(image) == PyAssign(image, 12, PackLE32(NegMask32(checksum32(PyFrom(image, 64)))))

\* the image with the dword at 12 making the dwords of the whole image add up to 0
Sealed12(image) == PyAssign(image, 12, PackLE32(checksum32(image)))

\* a VIA header with a zero Checksum (VIA_MC_Header)
ViaHeader(rev, year, day, month, sig, total_size, name) ==
    <<82, 82, 65, 83>> \o PackLE32(rev) \o <<year % 256, year \div 256, day, month>> \o PackLE32(sig)
    \o Zeros(4) \o <<1, 0, 0, 0>> \o Zeros(8) \o PackLE32(<<0, total_size>>) \o Padded(name, 12)

\* a Freescale header without microcode entries (FSL_MC_Header)
FslHeader(total_size, name, model, major, minor) ==
    PackBE32(<<0, total_size>>) \o <<81, 69, 70, 1>> \o Padded(name, 62) \o <<0, 0>>
    \o <<model \div 256, model % 256, major, minor>> \o Zeros(48)

\* the .inc text of an image: a line 'dd 0jjjjjjjjh' per dword
IncText(image) ==
    [i \in 1..(14 * (Len(image) \div 4)) |->
        LET k == (i - 1) \div 14
            j == (i - 1) % 14
        IN  IF j < 4 THEN <<100, 100, 32, 48>>[j + 1]
            ELSE IF j < 12 THEN FmtX32(LE32(image, 4 * k), 8)[j - 3]
            ELSE IF j = 12 THEN 104 ELSE 10]

\* the .dat text of an image: a line '0xjjjjjjjj, 0xjjjjjjjj, 0xjjjjjjjj, 0xjjjjjjjj,' per 4 dwords
DatText(image) ==
    [i \in 1..(12 * (Len(image) \div 4)) |->
        LET k == (i - 1) \div 12
            j == (i - 1) % 12
        IN  IF j < 2 THEN <<48, 120>>[j + 1]
            ELSE IF j < 10 THEN FmtX32(LE32(image, 4 * k), 8)[j - 1]
            ELSE IF j = 10 THEN 44
            ELSE IF k % 4 = 3 THEN 10 ELSE 32]

I_good  == Sealed(IntelHeader(<<0, 194>>, 8214, 16, 5, <<5, 1763>>, 54, 0, 48))
I_bad   == IntelHeader(<<0, 195>>, 8214, 16, 5, <<5, 1763>>, 54, 0, 48)
I_known == IntelHeader(<<0, 255>>, 8214, 5, 1, <<5, 1763>>, 54, 0, 48)
\* the CPUID, revision and date of I_known with other Platform IDs
I_known2 == IntelHeader(<<0, 255>>, 8214, 5, 1, <<5, 1763>>, 2, 0, 48)
I_apr31 == Sealed(IntelHeader(<<0, 196>>, 8214, 49, 4, <<5, 1763>>, 54, 0, 48))
I_feb30 == Sealed(IntelHeader(<<0, 197>>, 8214, 48, 2, <<5, 1763>>, 54, 0, 48))
I_short == Sealed(IntelHeader(<<0, 198>>, 8214, 16, 5, <<5, 1763>>, 54, 0, 96))
I_ext   == IntelExtended(<<0, 199>>, 8214, 16, 5, <<5, 1763>>, 2, <<5, 1764>>, 4)
\* an Extended Header field with Platform IDs 0x104
I_extwide == IntelExtendedWith(<<0, 201>>, 8214, 16, 5, <<5, 1763>>, 2, <<5, 1764>>, <<0, 260>>)
\* an Extended Header field with the CPUID 0x010506E4
I_exthigh == IntelExtendedWith(<<0, 202>>, 8214, 16, 5, <<5, 1763>>, 2, <<261, 1764>>, <<0, 4>>)
\* an Extra Header without the CPUID of the main header
I_xcpu  == IntelExtra(<<0, 210>>, 8214, 16, 5, <<5, 1763>>, 2, <<0, 210>>, <<5, 1764>>)
\* an Extra Header with another update revision
I_xrev  == IntelExtra(<<0, 211>>, 8214, 16, 5, <<5, 1763>>, 2, <<0, 212>>, <<5, 1763>>)
I_extbad == IntelExtendedBad(<<0, 200>>, 8214, 16, 5, <<5, 1763>>, 2, <<5, 1764>>, 4)

A_hdr(rev, year, day, month, nb) == AmdHeader(rev, year, day, month, 16, nb, U32Zero, 4161)

A_good  == AmdSealed(AmdImage(A_hdr(<<256, 200>>, 8208, 9, 3, U32Zero), 512))
A_bad   == PyAssign(AmdImage(A_hdr(<<256, 201>>, 8208, 9, 3, U32Zero), 512), 12, PackLE32(<<0, 1>>))
A_nochk == AmdImage(A_hdr(<<256, 202>>, 8208, 9, 3, U32Zero), 512)
A_m13   == AmdSealed(AmdImage(A_hdr(<<768, 39>>, 8209, 9, 19, U32Zero), 512))
A_m13x  == AmdSealed(AmdImage(A_hdr(<<768, 40>>, 8209, 9, 19, U32Zero), 512))
A_chip  == AmdSealed(AmdImage(A_hdr(<<256, 210>>, 8210, 23, 1, <<38400, 4130>>), 512))
A_null  == A_hdr(<<256, 203>>, 8208, 9, 3, U32Zero) \o Zeros(36)
A_size  == AmdImage(AmdHeader(<<256, 204>>, 8208, 9, 3, 0, U32Zero, U32Zero, 4161), 68)
\* a microcode that starts 64 bytes into another
A_over  == PySlice(A_nochk, 0, 64) \o A_good
\* a microcode whose first byte is the last byte of another
A_touch == PyAssign(A_nochk, 511, <<16>>) \o PyFrom(A_good, 1)
\* another CPUID, later than the others
A_other == AmdSealed(AmdImage(AmdHeader(<<256, 220>>, 8211, 1, 1, 16, U32Zero, U32Zero, 4162), 512))
\* family 17h (CPUID 00800F12) with a DataChecksum that is not the sum of the dwords
A_zen   == PyAssign(AmdImage(AmdHeader(<<2048, 4400>>, 8215, 9, 3, 16, U32Zero, U32Zero, 32786), 512),
                    12, PackLE32(<<0, 1>>))
\* DataChecksum and the sum of the dwords from 0x40 on add up to 0
A_neg   == PyAssign(AmdImage(A_hdr(<<256, 206>>, 8208, 9, 3, U32Zero), 512), 12,
                    PackLE32(<<65277, 64764>>))
\* DataChecksum makes the dwords of the whole microcode, header included, add up to 0
A_whole == Sealed12(AmdImage(A_hdr(<<256, 205>>, 8208, 9, 3, U32Zero), 512))

V_good  == Sealed(ViaHeader(<<0, 10>>, 2012, 5, 3, <<0, 1786>>, 48, <<86, 73, 65, 49>>))
V_bad   == ViaHeader(<<0, 11>>, 2012, 5, 3, <<0, 1786>>, 48, <<86, 73, 65, 49>>)
V_known == PyAssign(ViaHeader(<<0, 12>>, 2011, 9, 8, <<0, 1790>>, 48, <<48, 54, 70, 69, 49, 48, 53, 65>>), 16,
                    PackLE32(<<36665, 28531>>))
V_late  == Sealed(ViaHeader(<<0, 13>>, 2013, 7, 6, <<0, 1786>>, 48, <<86, 73, 65, 49>>))
V_feb30 == Sealed(ViaHeader(<<0, 14>>, 2012, 30, 2, <<0, 1786>>, 48, <<86, 73, 65, 49>>))

F_hdr(total_size, minor) == FslHeader(total_size, <<81, 69>>, 8569, 1, minor)

\* the trailing checksum 0x24646C83 is zlib.crc32(header, 0xFFFFFFFF) ^ 0xFFFFFFFF
F_good  == F_hdr(128, 0) \o <<36, 100, 108, 131>>
\* the trailing checksum 0xBEEB4D9C is zlib.crc32(header)
F_zlib  == F_hdr(128, 1) \o <<190, 235, 77, 156>>
\* TotalSize of 256 in a file of 128 bytes; 0xD1C978DA as for F_good
F_trunc == F_hdr(256, 2) \o <<209, 201, 120, 218>>
\* the first Virtual Trap Address is 'QEF\x01', 80 bytes of zeros follow the
\* microcode; the trailing checksum 0xF1906B00 is computed as for F_good
F_vtrap == PyAssign(F_hdr(128, 3), 88, <<81, 69, 70, 1>>) \o <<241, 144, 107, 0>> \o Zeros(80)

\* the files on disk when the script starts: name -> content
InputFiles ==
    (<<105, 103>> :> I_good)   \* 'ig'
    @@ (<<105, 98>> :> I_bad)   \* 'ib'
    @@ (<<105, 107>> :> I_known)   \* 'ik'
    @@ (<<105, 106>> :> I_known2)   \* 'ij'
    @@ (<<120, 120>> :> I_ext \o I_ext)   \* 'xx': a microcode with an Extended Header, twice
    @@ (<<102, 118>> :> F_vtrap)   \* 'fv'
    @@ (<<105, 97>> :> I_apr31)   \* 'ia'
    @@ (<<105, 102>> :> I_feb30)   \* 'if'
    @@ (<<105, 115>> :> I_short)   \* 'is'
    @@ (<<105, 120>> :> I_ext)   \* 'ix'
    @@ (<<105, 121>> :> I_extbad)   \* 'iy'
    @@ (<<105, 119>> :> I_extwide)   \* 'iw'
    @@ (<<120, 99>> :> I_xcpu)   \* 'xc'
    @@ (<<120, 114>> :> I_xrev)   \* 'xr'
    @@ (<<105, 116>> :> PySlice(I_ext, 0, 60))   \* 'it': cut inside the Extended Header
    @@ (<<105, 104>> :> I_exthigh)   \* 'ih'
    @@ (<<99, 105>> :> IncText(I_good))   \* 'ci'
    @@ (<<99, 100>> :> DatText(I_good))   \* 'cd'
    @@ (<<97, 103>> :> A_good)   \* 'ag'
    @@ (<<97, 98>> :> A_bad)   \* 'ab'
    @@ (<<97, 110>> :> A_nochk)   \* 'an'
    @@ (<<97, 109>> :> A_m13)   \* 'am'
    @@ (<<97, 120>> :> A_m13x)   \* 'ax'
    @@ (<<97, 99>> :> A_chip)   \* 'ac'
    @@ (<<97, 122>> :> A_null)   \* 'az'
    @@ (<<97, 115>> :> A_size)   \* 'as'
    @@ (<<97, 119>> :> A_whole)   \* 'aw'
    @@ (<<97, 114>> :> A_zen)   \* 'ar'
    @@ (<<97, 112>> :> A_neg)   \* 'ap'
    @@ (<<97, 111>> :> A_other)   \* 'ao'
    @@ (<<97, 118>> :> A_over)   \* 'av'
    @@ (<<97, 48>> :> PyFrom(A_good, 1))   \* 'a0': the pattern at the start of the file
    @@ (<<97, 116>> :> A_touch)   \* 'at'
    @@ (<<118, 103>> :> V_good)   \* 'vg'
    @@ (<<118, 98>> :> V_bad)   \* 'vb'
    @@ (<<118, 107>> :> V_known)   \* 'vk'
    @@ (<<118, 108>> :> V_late)   \* 'vl'
    @@ (<<118, 102>> :> V_feb30)   \* 'vf'
    @@ (<<102, 103>> :> F_good)   \* 'fg'
    @@ (<<102, 122>> :> F_zlib)   \* 'fz'
    @@ (<<102, 116>> :> F_trunc)   \* 'ft'
    @@ (<<102, 111>> :> F_good \o PyFrom(F_good, 4))   \* 'fo'
    @@ (<<102, 48>> :> PyFrom(F_good, 4))   \* 'f0': the pattern at the start of the file
    @@ (<<112, 102>> :> Zeros(8) \o <<95, 65, 77, 73, 80, 70, 65, 84>>)   \* 'pf'
    @@ (<<110, 111>> :> <<1, 2, 3, 4>>)   \* 'no'
    @@ (<<103, 118>> :> I_good \o V_good)   \* 'gv'
    @@ (<<103, 103>> :> I_good \o I_good)   \* 'gg'
    @@ (<<97, 97>> :> A_good \o A_good)   \* 'aa'
    @@ (<<118, 118>> :> V_good \o V_good)   \* 'vv'
    @@ (<<102, 102>> :> F_good \o F_good)   \* 'ff'

\* the input lists of a run: each file alone, a name that is no file, and a
\* list of two files
Sources ==
    {<<f>> : f \in DOMAIN InputFiles} \cup {<<<<122, 122>>>>, <<<<105, 103>>, <<97, 103>>>>, <<<<105, 116>>, <<105, 103>>>>,
        <<<<105, 107>>, <<105, 106>>>>}

\* MCE_Param: no option, -add, -info, -ubu
NoParam == [build_db |-> FALSE, print_hdr |-> FALSE, mce_ubu |-> FALSE]
Params ==
    {NoParam, [NoParam EXCEPT !.build_db = TRUE], [NoParam EXCEPT !.print_hdr = TRUE],
     [NoParam EXCEPT !.mce_ubu = TRUE]}

----------------------------------------------------------------------------
(* The script as a state machine: a step per input file opened, per        *)
(* microcode iteration, per vendor section ended, per file ended           *)

\* the files of the machine: the input files as given, and what the script wrote
AllFiles == disk @@ InputFiles

\* the part of the files d the script wrote
Written(d) == [q \in DOMAIN d \ DOMAIN InputFiles |-> d[q]]

\* the globals an iteration of a vendor loop reads
Context ==
    [reading |-> reading, in_file |-> source[cur_count],
     is_temp |-> source[cur_count] \in Range(temp_mc_paths), param |-> param, db |-> db,
     disk |-> AllFiles, mc_nr |-> mc_nr, cur_count |-> cur_count, source |-> source,
     temp |-> temp_mc_paths, idx |-> idx]

\* the input lists tried on a catalog file that is blank or a released one
FewSources == {<<<<105, 103>>>>, <<<<110, 111>>>>, <<<<105, 103>>, <<97, 103>>>>}

\* the script starts on a list of inputs with a catalog without records
Init ==
    /\ call = Idle
    /\ param \in Params
    /\ \/ db = EmptyDb /\ source \in Sources
       \/ db \in {BlankDb, ReleasedDb} /\ source \in FewSources
    /\ temp_mc_paths = <<>> /\ cur_count = 0 /\ reading = <<>> /\ match_list = <<>> /\ idx = 0
    /\ pc = "open" /\ mc_nr = 0 /\ total = 0 /\ mc_conv_data = <<>> /\ msgs = <<>>
    /\ disk = NoFiles /\ mc = NoMc /\ exit_code = NoCode

\* the catalog is opened and, if found empty, initialised; without the file the
\* script exits (lines 917-948)
Connect ==
    /\ pc = "open"
    /\ IF db = None
       THEN db' = db /\ pc' = "exit" /\ exit_code' = -1
       ELSE db' = db_init(db) /\ pc' = "file" /\ exit_code' = exit_code
    /\ UNCHANGED <<call, param, source, temp_mc_paths, cur_count, reading, match_list, idx, mc_nr,
                   total, mc_conv_data, msgs, disk, mc>>

\* 'for in_file in source' up to the Intel scan (lines 1144-1233)
OpenFile ==
    /\ pc = "file" /\ cur_count < Len(source)
    /\ LET in_file == source[cur_count + 1]
       IN  IF ~isfile(AllFiles, in_file)
           THEN /\ pc' = "exit" /\ exit_code' = -1
                /\ UNCHANGED <<cur_count, mc_nr, total, msgs, reading, mc_conv_data, match_list,
                               idx, disk, source, temp_mc_paths>>
           ELSE
           LET rd   == AllFiles[in_file]
               conv == IF in_file \in Range(temp_mc_paths) THEN <<>> ELSE mc_conv_data_of(rd)
               cont_path == cont_path_of(in_file, adler32(conv))
               list == finditer("Intel", rd)
           IN  /\ cur_count' = cur_count + 1 /\ mc_nr' = 0 /\ reading' = rd
               /\ exit_code' = exit_code
               /\ IF PySlice(rd, 8, 16) = <<95, 65, 77, 73, 80, 70, 65, 84>>
                  THEN /\ msgs' = <<<<"pfat", 0>>>>
                       /\ disk' = Written(copy_file_with_warn(AllFiles, in_file, rd, cur_count + 1))
                       /\ pc' = "file" /\ total' = 0 /\ mc_conv_data' = <<>>
                       /\ match_list' = <<>> /\ idx' = 0
                       /\ UNCHANGED <<source, temp_mc_paths>>
                  ELSE /\ msgs' = <<>> /\ mc_conv_data' = conv
                       /\ IF conv # <<>>
                          THEN /\ temp_mc_paths' = Append(temp_mc_paths, cont_path)
                               /\ source' = Append(source, cont_path)
                               /\ disk' = Written(WriteFile(AllFiles, cont_path, conv))
                          ELSE UNCHANGED <<source, temp_mc_paths, disk>>
                       /\ match_list' = list /\ idx' = 0 /\ total' = Len(list)
                       /\ pc' = "intel"
    /\ UNCHANGED <<call, db, param, mc>>

\* the state after an iteration of a vendor loop with the result r
Iterated(r) ==
    /\ mc' = r.mc /\ msgs' = msgs \o r.msgs /\ mc_nr' = r.mc_nr /\ db' = r.db /\ disk' = Written(r.disk)
    /\ source' = r.source /\ temp_mc_paths' = r.temp
    /\ IF r.exit THEN pc' = "exit" /\ exit_code' = -1 /\ idx' = idx
       ELSE pc' = pc /\ exit_code' = exit_code /\ idx' = idx + 1
    /\ UNCHANGED <<call, param, cur_count, reading, match_list, total, mc_conv_data>>

IntelMicrocode ==
    /\ pc = "intel" /\ idx < Len(match_list)
    /\ LET r == intel_iteration(Context, match_list) IN Iterated(r)

AmdMicrocode ==
    /\ pc = "amd" /\ idx < Len(match_list)
    /\ LET r == amd_iteration(Context, match_list) IN Iterated(r)

ViaMicrocode ==
    /\ pc = "via" /\ idx < Len(match_list)
    /\ LET r == via_iteration(Context, match_list) IN Iterated(r)

FslMicrocode ==
    /\ pc = "fsl" /\ idx < Len(match_list)
    /\ LET r == fsl_iteration(Context, match_list) IN Iterated(r)

\* a vendor loop ends and the next vendor's pattern is searched
VendorDone ==
    /\ pc \in {"intel", "amd", "via"} /\ idx = Len(match_list)
    /\ LET next == CASE pc = "intel" -> "amd" [] pc = "amd" -> "via" [] OTHER -> "fsl"
           list == finditer(CASE next = "amd" -> "AMD" [] next = "via" -> "VIA" [] OTHER -> "FSL",
                            reading)
       IN  /\ pc' = next /\ match_list' = list /\ idx' = 0 /\ total' = total + Len(list)
    /\ UNCHANGED <<call, db, param, source, temp_mc_paths, cur_count, reading, mc_nr, mc_conv_data,
                   msgs, disk, mc, exit_code>>

\* the end of the file's turn (lines 1878-1884)
FileDone ==
    /\ pc = "fsl" /\ idx = Len(match_list)
    /\ LET c == Context
       IN  IF mc_conv_data # <<>>
           THEN msgs' = Append(msgs, <<"container", 0>>) /\ disk' = disk
           ELSE IF total = 0 /\ c.is_temp
           THEN /\ msgs' = Append(msgs, <<"no_microcode_temp", 0>>)
                /\ disk' = Written(copy_file_with_warn(AllFiles, c.in_file, reading, cur_count))
           ELSE IF total = 0
           THEN msgs' = Append(msgs, <<"no_microcode", 0>>) /\ disk' = disk
           ELSE UNCHANGED <<msgs, disk>>
    /\ pc' = "file"
    /\ UNCHANGED <<call, db, param, source, temp_mc_paths, cur_count, reading, match_list, idx,
                   mc_nr, total, mc_conv_data, mc, exit_code>>

RECURSIVE RemoveAll(_, _, _)
\* the disk after the files paths[k..] that exist are removed
RemoveAll(d, paths, k) ==
    IF k > Len(paths) THEN d
    ELSE RemoveAll(IF isfile(d, paths[k]) THEN RemoveFile(d, paths[k]) ELSE d, paths, k + 1)

\* after the last file: the temporary files are removed and the script exits
\* (lines 1886-1990, without -blob)
Finish ==
    /\ pc = "file" /\ cur_count = Len(source)
    /\ disk' = Written(RemoveAll(AllFiles, temp_mc_paths, 1))
    /\ pc' = "exit"
    /\ exit_code' = IF param.mce_ubu THEN mc_nr ELSE 0
    /\ UNCHANGED <<call, db, param, source, temp_mc_paths, cur_count, reading, match_list, idx,
                   mc_nr, total, mc_conv_data, msgs, mc>>

\* the script is started again, without -add, on the catalog and the files a
\* run with -add left
Rerun ==
    /\ pc = "exit" /\ exit_code = 0 /\ param.build_db
    /\ param' \in Params \ {[NoParam EXCEPT !.build_db = TRUE]}
    /\ source' \in Sources
    /\ temp_mc_paths' = <<>> /\ cur_count' = 0 /\ reading' = <<>> /\ match_list' = <<>> /\ idx' = 0
    /\ pc' = "open" /\ mc_nr' = 0 /\ total' = 0 /\ mc_conv_data' = <<>> /\ msgs' = <<>>
    /\ mc' = NoMc /\ exit_code' = NoCode
    /\ UNCHANGED <<call, db, disk>>

Next ==
    \/ Connect \/ OpenFile \/ IntelMicrocode \/ AmdMicrocode \/ ViaMicrocode \/ FslMicrocode
    \/ VendorDone \/ FileDone \/ Finish \/ Rerun

Spec == Init /\ [][Next]_vars

----------------------------------------------------------------------------
(* Properties                                                              *)

\* a + b modulo 2^32
U32AddWrap(a, b) ==
    LET l == a[2] + b[2]
    IN  <<(a[1] + b[1] + (l \div 65536)) % 65536, l % 65536>>

\* byte i (from 0) of a buffer, 0 past its end
ByteAt(data, i) == IF i < Len(data) THEN data[i + 1] ELSE 0

\* the little-endian word number k (from 0) of a buffer, zero-extended past its end
WordAt(data, k) ==
    <<ByteAt(data, 4 * k + 2) + 256 * ByteAt(data, 4 * k + 3),
      ByteAt(data, 4 * k) + 256 * ByteAt(data, 4 * k + 1)>>

RECURSIVE WrapSum(_, _, _)
\* the sum of the words lo..hi of data as an unsigned 32-bit value that wraps at
\* every addition
WrapSum(data, lo, hi) ==
    IF lo > hi THEN U32Zero
    ELSE IF lo = hi THEN WordAt(data, lo)
    ELSE U32AddWrap(WrapSum(data, lo, (lo + hi) \div 2), WrapSum(data, (lo + hi) \div 2 + 1, hi))

\* the wrapping sum of all the words of data, a short last word zero-extended
WordSum(data) == WrapSum(data, 0, (Len(data) + 3) \div 4 - 1)

\* C2: checksum32(data) is (-S) mod 2^32 for S the wrapping sum of the 4-byte
\* little-endian words of data: it lies in 0..2^32-1, it added to S gives 0 modulo
\* 2^32, and it is 0 exactly when S is 0 modulo 2^32.
C2_Checksum32IsNegatedSum ==
    (call.fn = "checksum32" /\ call.done) =>
        LET S == WordSum(call.data)
            r == call.ret
        IN  /\ r[1] \in 0..65535 /\ r[2] \in 0..65535
            /\ U32AddWrap(r, S) = U32Zero
            /\ (r = U32Zero <=> S = U32Zero)

\* the sum of the words passed 2^32 and the checksum is not 0
C2_Witness ==
    /\ call.fn = "checksum32" /\ call.done
    /\ checksum32_loop(call.data, 0, (Len(call.data) + 3) \div 4 - 1, U32Zero)[1] >= 65536
    /\ call.ret # U32Zero

\* C9: date_check is False for 29 February in a year not divisible by 4 and for
\* 30 and 31 February in every year, and True for 29 February in a year divisible by 4.
C9_DateCheckFebruary ==
    (call.fn = "date_check" /\ call.done /\ call.m = 2) =>
        /\ (call.d = 29 /\ call.y % 4 # 0) => call.ret = FALSE
        /\ call.d \in {30, 31} => call.ret = FALSE
        /\ (call.d = 29 /\ call.y % 4 = 0) => call.ret = TRUE

C9_Witness ==
    /\ call.fn = "date_check" /\ call.done
    /\ call.m = 2 /\ call.d = 29 /\ call.y % 4 = 0 /\ call.ret = TRUE

\* a date as a number that orders as the calendar does
DateNum(d) == d[1] * 10000 + d[2] * 100 + d[3]

\* every bit of the 8-bit mask a is set in the mask b
BitSubset(a, b) == \A bit \in 0..7 : BitOf(a, bit) = 1 => BitOf(b, bit) = 1

\* the platforms of a mask: its set bits, a mask of 0 standing for platform 0
PlatSet(p) == IF p = 0 THEN {0} ELSE {bit \in 0..7 : BitOf(p, bit) = 1}

\* bit 31 of a revision: the release channel
PreRelease(v) == v[1] >= 32768

IntelCall == call.fn = "mc_upd_chk_intel" /\ call.done
AmdCall == call.fn = "mc_upd_chk_amd" /\ call.done

\* the catalog row r (<<date, mask, revision>>) supersedes the queried Intel
\* microcode, with the platform masks compared bit by bit
SupersedesBitwise(r) ==
    /\ PreRelease(r[3]) = PreRelease(call.in_ver)
    /\ BitSubset(call.plat, r[2])
    /\ \/ DateNum(r[1]) > DateNum(call.date)
       \/ DateNum(r[1]) = DateNum(call.date) /\ r[2] # call.plat
       \/ DateNum(r[1]) = DateNum(call.date) /\ U32Lt(call.in_ver, r[3])

\* the same, with the platform masks compared as platform sets
SupersedesPlatSet(r) ==
    /\ PreRelease(r[3]) = PreRelease(call.in_ver)
    /\ PlatSet(call.plat) \subseteq PlatSet(r[2])
    /\ \/ DateNum(r[1]) > DateNum(call.date)
       \/ DateNum(r[1]) = DateNum(call.date) /\ PlatSet(r[2]) # PlatSet(call.plat)
       \/ DateNum(r[1]) = DateNum(call.date) /\ U32Lt(call.in_ver, r[3])

SameChannelRows == SelectSeq(call.rows, LAMBDA r : PreRelease(r[3]) = PreRelease(call.in_ver))

\* C4 as stated: for an unmodified Intel candidate outside -last mode, not latest
\* exactly when a row of its channel with a bitwise superset mask has a later date,
\* or the same date and a strictly larger mask or a larger revision.
C4_Original ==
    (IntelCall /\ call.in_mod = 0 /\ ~call.get_last) =>
        (call.ret[1] = FALSE <=> \E i \in DOMAIN call.rows : SupersedesBitwise(call.rows[i]))

\* C4 as amended: the same with the masks compared as platform sets (the set bits,
\* mask 0 standing for platform 0); rows of the other channel never change the result.
C4_IntelNotLatestIff ==
    (IntelCall /\ call.in_mod = 0 /\ ~call.get_last) =>
        /\ call.ret[1] = FALSE <=> \E i \in DOMAIN call.rows : SupersedesPlatSet(call.rows[i])
        /\ UpdChk(call, SameChannelRows)[1] = call.ret[1]

\* decided by the platform tie-break: same date, larger platform set, no larger
\* revision, next to a row of the other channel
C4_Witness ==
    /\ IntelCall /\ call.in_mod = 0 /\ ~call.get_last /\ call.ret[1] = FALSE
    /\ Len(call.rows) = 2
    /\ PreRelease(call.rows[1][3]) # PreRelease(call.in_ver)
    /\ DateNum(call.rows[2][1]) = DateNum(call.date)
    /\ PlatSet(call.plat) \subseteq PlatSet(call.rows[2][2])
    /\ PlatSet(call.plat) # PlatSet(call.rows[2][2])
    /\ ~U32Lt(call.in_ver, call.rows[2][3])

InsertAt(s, k, e) == SubSeq(s, 1, k - 1) \o <<e>> \o SubSeq(s, k, Len(s))

SwapAt(s, i, j) == [k \in DOMAIN s |-> IF k = i THEN s[j] ELSE IF k = j THEN s[i] ELSE s[k]]

\* rows of the candidate's channel, dated earlier, whose mask is a subset of its mask
EarlierSubsetRows ==
    {r \in IntelRows : /\ PreRelease(r[3]) = PreRelease(call.in_ver)
                       /\ BitSubset(r[2], call.plat)
                       /\ DateNum(r[1]) < DateNum(call.date)}

\* adding an earlier subset-platform row anywhere, or reordering the rows, leaves
\* is_latest as it is
C5_Unaffected ==
    /\ \A r \in EarlierSubsetRows : \A k \in 1..(Len(call.rows) + 1) :
          UpdChk(call, InsertAt(call.rows, k, r))[1] = call.ret[1]
    /\ \A i, j \in DOMAIN call.rows : UpdChk(call, SwapAt(call.rows, i, j))[1] = call.ret[1]

\* C5 as stated: against one row of the candidate's channel with a later date and a
\* superset platform mask the candidate is not latest; an earlier subset-platform
\* row never changes is_latest; the order of the rows does not matter.
C5_Original ==
    IntelCall =>
        /\ ( /\ Len(call.rows) = 1
             /\ PreRelease(call.rows[1][3]) = PreRelease(call.in_ver)
             /\ BitSubset(call.plat, call.rows[1][2])
             /\ DateNum(call.rows[1][1]) > DateNum(call.date) ) => call.ret[1] = FALSE
        /\ C5_Unaffected

\* C5 as amended: the same, the superset taken on platform sets (mask 0 standing
\* for platform 0).
C5_LaterSupersetRowAlone ==
    IntelCall =>
        /\ ( /\ Len(call.rows) = 1
             /\ PreRelease(call.rows[1][3]) = PreRelease(call.in_ver)
             /\ PlatSet(call.plat) \subseteq PlatSet(call.rows[1][2])
             /\ DateNum(call.rows[1][1]) > DateNum(call.date) ) => call.ret[1] = FALSE
        /\ C5_Unaffected

\* a later superset row alone; an earlier subset row exists that could be added
C5_Witness ==
    /\ IntelCall /\ call.in_mod = 0 /\ Len(call.rows) = 1
    /\ PreRelease(call.rows[1][3]) = PreRelease(call.in_ver)
    /\ PlatSet(call.plat) \subseteq PlatSet(call.rows[1][2])
    /\ PlatSet(call.plat) # PlatSet(call.rows[1][2])
    /\ DateNum(call.rows[1][1]) > DateNum(call.date)
    /\ call.ret[1] = FALSE
    /\ EarlierSubsetRows # {}

\* a row dated strictly later (for Intel: of the same channel and with a superset of
\* the platforms)
LaterRowPlatSet(r) ==
    /\ DateNum(r[1]) > DateNum(call.date)
    /\ call.fn = "mc_upd_chk_intel" =>
          PreRelease(r[3]) = PreRelease(call.in_ver) /\ PlatSet(call.plat) \subseteq PlatSet(r[2])

\* C7: in -last mode the comparators decide by date only: a row of the same date
\* never makes the microcode not latest, whatever its revision or platform mask, and
\* a strictly later row (Intel: same channel, superset of the platforms) does.
C7_LastModeDateOnly ==
    ((IntelCall \/ AmdCall) /\ call.get_last) =>
        (call.ret[1] = FALSE <=> \E i \in DOMAIN call.rows : LaterRowPlatSet(call.rows[i]))

\* -last: a row of the same date, channel and platform with a larger revision, and
\* the microcode is still latest
C7_Witness ==
    /\ IntelCall /\ call.get_last /\ call.ret[1] = TRUE
    /\ \E i \in DOMAIN call.rows :
          /\ DateNum(call.rows[i][1]) = DateNum(call.date)
          /\ PreRelease(call.rows[i][3]) = PreRelease(call.in_ver)
          /\ PlatSet(call.plat) \subseteq PlatSet(call.rows[i][2])
          /\ U32Lt(call.in_ver, call.rows[i][3])

\* the row mc_latest was built from, as a comparator input: <<date, mask, revision>>
LatestAsRow ==
    IF call.fn = "mc_upd_chk_intel"
    THEN <<<<py_int(call.ret[2][4]), py_int(call.ret[2][5]), py_int(call.ret[2][6])>>,
           call.ret[2][2], call.ret[2][3]>>
    ELSE <<<<py_int(call.ret[2][3]), py_int(call.ret[2][4]), py_int(call.ret[2][5])>>,
           0, call.ret[2][2]>>

----------------------------------------------------------------------------
(* Properties of the runs of the script.  mc holds the globals of the      *)
(* iteration made last; db is the catalog that iteration looked at unless  *)
(* it added a record itself (outcome "added")                              *)

\* the globals of an iteration that went as far as giving the candidate an outcome
Outcome == IF "outcome" \in DOMAIN mc THEN mc.outcome ELSE "exit"

\* the iteration made last wrote a microcode of one of the vendors to Extracted/
Saved(vendors) == mc.vendor \in vendors /\ Outcome = "saved"

\* the path holds '!Bad_'
BadPrefixed(path) == \E i \in 1..(Len(path) - 4) : SubSeq(path, i, i + 4) = <<33, 66, 97, 100, 95>>

\* the table and the Adler-32 column (from 1) of the vendor's records
AdlerColumn ==
    CASE mc.vendor = "Intel" -> <<"Intel", 7>> [] mc.vendor = "AMD" -> <<"AMD", 9>>
      [] mc.vendor = "VIA" -> <<"VIA", 7>> [] OTHER -> <<"FSL", 7>>

\* the record the lookup found for the microcode stores the Adler-32 of its bytes
KnownBytes ==
    \E i \in DOMAIN db[AdlerColumn[1]] :
        /\ db[AdlerColumn[1]][i] = mc.mc_at_db
        /\ db[AdlerColumn[1]][i][AdlerColumn[2]] = FmtX32(adler32(mc.mc_data), 8)

\* the microcode is one of those let through with a wrong checksum
AllowListed ==
    \/ mc.vendor = "Intel" /\ <<mc.cpu_id, mc.patch, mc.full_date>> \in known_bad_intel
    \/ mc.vendor = "VIA" /\ <<mc.full_date, mc.name, mc.mc_chk>> \in via_excused

\* C1 as stated: an Intel, AMD or VIA microcode written without the !Bad_ prefix
\* has checksum32 of its whole extracted region equal to 0.
C1_Original ==
    (Saved({"Intel", "AMD", "VIA"}) /\ ~BadPrefixed(mc.mc_path)) =>
        checksum32(mc.mc_data) = U32Zero

\* C1 as amended: an Intel or VIA microcode written without the !Bad_ prefix has
\* checksum32 of its whole extracted region equal to 0, and an AMD one has
\* checksum32 of the region from 0x40 on plus its DataChecksum equal to 0 modulo
\* 2^32 or a DataChecksum of 0; unless the catalog record found for it stores the
\* Adler-32 of the region, or it is on the list of known wrong checksums.
C1_ValidChecksum ==
    (Saved({"Intel", "AMD", "VIA"}) /\ ~BadPrefixed(mc.mc_path)) =>
        \/ KnownBytes
        \/ AllowListed
        \/ mc.vendor \in {"Intel", "VIA"} /\ checksum32(mc.mc_data) = U32Zero
        \/ mc.vendor = "AMD" /\ mc.mc_chk = U32Zero
        \/ mc.vendor = "AMD" /\ U32AddWrap(checksum32(PyFrom(mc.mc_data, 64)), mc.mc_chk) = U32Zero

\* an AMD microcode unknown to the catalog is written as new: its DataChecksum is
\* not 0 and fits the data from 0x40 on, and the whole region does not add up to 0
C1_Witness ==
    /\ Saved({"AMD"}) /\ ~BadPrefixed(mc.mc_path) /\ mc.mc_at_db = None
    /\ mc.mc_chk # U32Zero
    /\ mc.mc_chk = WordSum(PyFrom(mc.mc_data, 64))
    /\ checksum32(mc.mc_data) # U32Zero

\* the CRC register after the bytes of data, started at reg: reflected polynomial
\* 0xEDB88320, a bit at a time
CrcRegister(data, reg) == CrcLoop(data, 1, Len(data), [i \in 1..32 |-> reg])

\* CRC-32/ISO-HDLC: the register starts at all-ones and is complemented at the end
CrcIsoHdlc(data) == FromBits32([i \in 1..32 |-> 1 - CrcRegister(data, 1)[i]])

\* the register starts at 0 and is taken as it is
CrcPlain(data) == FromBits32(CrcRegister(data, 0))

\* the bytes of the module before its trailing checksum
FslBody == PySlice(mc.mc_data, 0, -4)

\* the module is no shorter than its TotalSize
FslWhole == ~U32Lt(<<0, Len(mc.mc_data)>>, mc.mc_len)

\* C3 as stated: the value compared with the stored trailing checksum is the
\* CRC-32/ISO-HDLC of the bytes before it, and the module is valid (written without
\* the !Bad_ prefix) exactly when the two are equal.
C3_Original ==
    Saved({"FSL"}) =>
        /\ mc.mc_chk_ok = CrcIsoHdlc(FslBody)
        /\ ~BadPrefixed(mc.mc_path) <=> CrcIsoHdlc(FslBody) = mc.mc_chk

\* C3 as amended: unless the catalog record found for the module stores the
\* Adler-32 of its bytes, the value compared with the stored trailing checksum is
\* the reflected CRC-32 of the bytes before it with the register started at 0 and no
\* final XOR.  The module is written without the !Bad_ prefix exactly when that CRC
\* equals the stored checksum or the catalog record stores its Adler-32, and the
\* file holds all of its TotalSize bytes.
C3_FslChecksum ==
    Saved({"FSL"}) =>
        /\ ~KnownBytes => mc.mc_chk_ok = CrcPlain(FslBody)
        /\ ~BadPrefixed(mc.mc_path) <=>
               (KnownBytes \/ CrcPlain(FslBody) = mc.mc_chk) /\ FslWhole

\* a module unknown to the catalog whose trailing checksum is the CRC-32/ISO-HDLC
\* of its bytes is written as !Bad_
C3_Witness ==
    /\ Saved({"FSL"}) /\ mc.mc_at_db = None
    /\ mc.mc_chk = CrcIsoHdlc(FslBody)
    /\ mc.mc_chk # CrcPlain(FslBody)
    /\ BadPrefixed(mc.mc_path)

\* the header date of the candidate as the number yyyymmdd
McDate == py_int(mc.year \o mc.month \o mc.day)

\* a catalog record of that date and revision supersedes the candidate: the date is
\* strictly later, or the same with a strictly higher revision
Supersedes(yyyymmdd, version) ==
    \/ py_int(yyyymmdd) > McDate
    \/ py_int(yyyymmdd) = McDate /\ U32Lt(mc.patch, py_int16(version))

\* the AMD record is of the chipset of the candidate
SameChipset(r) == r[2] = mc.nb_id /\ r[3] = mc.sb_id /\ r[4] = mc.nbsb_rev_id

\* the AMD records of the candidate's CPUID that supersede it
AmdSuperseding == {i \in DOMAIN db.AMD : db.AMD[i][1] = mc.cpu_id /\ Supersedes(db.AMD[i][6], db.AMD[i][5])}

\* the VIA records of the candidate's CPUID that supersede it
ViaSuperseding ==
    {i \in DOMAIN db.VIA : db.VIA[i][1] = FmtX32(mc.cpu_id, 8) /\ Supersedes(db.VIA[i][4], db.VIA[i][3])}

\* C6 as stated: an AMD or VIA candidate not marked modified is reported not latest
\* exactly when a catalog record of its CPUID (for AMD: and of its chipset IDs) has a
\* strictly later date, or the same date and a strictly higher revision.
C6_Original ==
    /\ (Saved({"AMD"}) /\ mc.mc_is_mod = 0) =>
          (mc.is_latest = FALSE <=> \E i \in AmdSuperseding : SameChipset(db.AMD[i]))
    /\ (Saved({"VIA"}) /\ mc.mc_is_mod = 0) =>
          (mc.is_latest = FALSE <=> ViaSuperseding # {})

\* C6 as amended: an AMD candidate not marked modified is reported not latest
\* exactly when a catalog record of its CPUID, whatever its chipset IDs, has a
\* strictly later date, or the same date and a strictly higher revision; records of
\* another CPUID never matter.  A VIA candidate is never reported not latest.
C6_AmdNotLatestIff ==
    /\ (Saved({"AMD"}) /\ mc.mc_is_mod = 0) => (mc.is_latest = FALSE <=> AmdSuperseding # {})
    /\ Saved({"VIA"}) => mc.is_latest = TRUE /\ mc.mc_latest = None

\* an AMD candidate is reported not latest although the only records that
\* supersede it are of another chipset, next to a later record of another CPUID
C6_Witness ==
    /\ Saved({"AMD"}) /\ mc.mc_is_mod = 0 /\ mc.is_latest = FALSE
    /\ AmdSuperseding # {}
    /\ \A i \in AmdSuperseding : ~SameChipset(db.AMD[i])

\* the days of a month, February of 29 days in the years divisible by 4
DaysIn(y, m) ==
    CASE m \in {4, 6, 9, 11} -> 30
      [] m = 2 -> IF y % 4 = 0 THEN 29 ELSE 28
      [] OTHER -> 31

\* a date of the calendar
CalendarDate(y, m, d) == m \in 1..12 /\ d \in 1..DaysIn(y, m)

\* the iteration made last read the header date of an Intel, AMD or VIA candidate
Dated == mc.vendor \in {"Intel", "AMD", "VIA"} /\ "year" \in DOMAIN mc

\* the AMD microcode whose 13th month is let through
DateAllowListed ==
    mc.vendor = "AMD"
    /\ <<mc.full_date, mc.patch>> = <<<<50, 48, 49, 49, 45, 49, 51, 45, 48, 57>>, <<768, 39>>>>

\* C10: an Intel, AMD or VIA candidate whose header date is no date of the calendar
\* (month in 1..12, day within the length of the month, 29 February only in years
\* divisible by 4) is skipped, unless it is allow-listed.
C10_InvalidDateSkipped ==
    (Dated /\ ~DateAllowListed
       /\ ~CalendarDate(py_int(mc.year), py_int(mc.month), py_int(mc.day)))
        => Outcome = "skip_date"

\* the path holds '!New_'
NewPrefixed(path) == \E i \in 1..(Len(path) - 4) : SubSeq(path, i, i + 4) = <<33, 78, 101, 119, 95>>

\* the vendor loop in progress has just made the iteration mc tells of: msgs and
\* mc_nr are still those of that iteration
JustSaved(vendors) ==
    /\ Saved(vendors) /\ idx > 0
    /\ pc = (CASE mc.vendor = "Intel" -> "intel" [] mc.vendor = "AMD" -> "amd"
               [] mc.vendor = "VIA" -> "via" [] OTHER -> "fsl")

AllVendors == {"Intel", "AMD", "VIA", "FSL"}

\* the vendor checksum of the extracted bytes is wrong: the dwords of an Intel or
\* VIA region do not add up to 0, the dwords of an AMD region from 0x40 on do not
\* add up to a DataChecksum that is not 0, the CRC of a Freescale module is not
\* its trailing checksum
FailsChecksum ==
    CASE mc.vendor \in {"Intel", "VIA"} -> WordSum(mc.mc_data) # U32Zero
      [] mc.vendor = "AMD" -> mc.mc_chk # U32Zero /\ WordSum(PyFrom(mc.mc_data, 64)) # mc.mc_chk
      [] OTHER -> CrcPlain(FslBody) # mc.mc_chk

\* the extracted bytes are fewer than the computed size
Truncated == IF mc.vendor = "FSL" THEN ~FslWhole ELSE Len(mc.mc_data) < mc.mc_len

\* the path save_mc_file takes when mc_path holds other bytes
DupPath == PySlice(mc.mc_path, 0, -4) \o <<95>> \o FmtX32(mc.mc_chk_mce, 8) \o <<46, 98, 105, 110>>

\* the bytes of the microcode are on disk under mc_path, or under the path of a duplicate
OnDisk == \E q \in {mc.mc_path, DupPath} : q \in DOMAIN disk /\ disk[q] = mc.mc_data

\* a message of the kind about the microcode is in the messages of the file
Told(kind) == \E i \in DOMAIN msgs : msgs[i] = <<kind, mc_nr>>

Identity ==
    CASE mc.vendor = "Intel" ->
           <<FmtX32(mc.cpu_id, 8), FmtX(mc.plat, 8), FmtX32(mc.patch, 8), mc.year \o mc.month \o mc.day,
             FmtX(mc.mc_len, 8), FmtX32(mc.mc_chk, 8)>>
      [] mc.vendor = "AMD" ->
           <<mc.cpu_id, mc.nb_id, mc.sb_id, mc.nbsb_rev_id, FmtX32(mc.patch, 8),
             mc.year \o mc.month \o mc.day, FmtX(mc.mc_len, 8), FmtX32(mc.mc_chk, 8),
             FmtX32(mc.mc_chk_mce, 8)>>
      [] mc.vendor = "VIA" ->
           <<FmtX32(mc.cpu_id, 8), mc.name, FmtX32(mc.patch, 8), mc.year \o mc.month \o mc.day,
             FmtX(mc.mc_len, 8), FmtX32(mc.mc_chk, 8)>>
      [] OTHER ->
           <<mc.name, mc.model, mc.major, mc.minor, FmtX32(mc.mc_len, 8), FmtX32(mc.mc_chk, 8)>>

\* a record of the vendor's table has the identity tuple of the microcode
InCatalog ==
    \E i \in DOMAIN db[AdlerColumn[1]] : SubSeq(db[AdlerColumn[1]][i], 1, Len(Identity)) = Identity

\* the checksums are right and the bytes are all there
WellFormed ==
    /\ ~FailsChecksum /\ ~Truncated
    /\ mc.vendor = "Intel" => mc.valid_ext_chk = U32Zero

\* the name written has no prefix
Unprefixed == ~BadPrefixed(mc.mc_path) /\ ~NewPrefixed(mc.mc_path)

\* C12 as stated: a candidate is written under the unprefixed name only if its
\* identity tuple matches a catalog record exactly; a well-formed candidate without
\* such a record is written under the !New_ prefix.
C12_Original ==
    Saved(AllVendors) =>
        /\ Unprefixed => InCatalog
        /\ (WellFormed /\ ~InCatalog) => NewPrefixed(mc.mc_path)

\* C12 as amended: a candidate is written under the unprefixed name only if its
\* identity tuple matches a catalog record exactly or it is on the list of known
\* wrong checksums; a well-formed candidate without such a record is written under
\* the !New_ prefix.
C12_AcceptedOrNew ==
    Saved(AllVendors) =>
        /\ Unprefixed => (InCatalog \/ AllowListed)
        /\ (WellFormed /\ ~InCatalog) => NewPrefixed(mc.mc_path)

\* a well-formed microcode is written as new although the catalog holds a record
\* of its CPUID: another revision of another date
C12_Witness ==
    /\ Saved({"Intel"}) /\ WellFormed /\ ~InCatalog /\ NewPrefixed(mc.mc_path)
    /\ \E i \in DOMAIN db.Intel : db.Intel[i][1] = FmtX32(mc.cpu_id, 8)

\* the file being parsed is one the script made
InTemp == source[cur_count] \in Range(temp_mc_paths)

\* the Extended Header of the Intel microcode is looked at
ExtExamined == mc.vendor = "Intel" /\ mc.mc_len > mc.mc_len_data + 48 /\ ~InTemp

\* the bytes of the Extended Header: 20 bytes and 12 for each of its fields
ExtData ==
    PySlice(mc.mc_data, 48 + mc.mc_len_data,
            48 + mc.mc_len_data + 20 + 12 * LE32(mc.mc_data, 48 + mc.mc_len_data)[2])

\* the dwords of the Extended Header looked at do not add up to 0
FailsExtended == ExtExamined /\ WordSum(ExtData) # U32Zero

\* the record the lookup found stores the Adler-32 of the Extended Header
KnownExtended == mc.mc_at_db # None /\ mc.mc_at_db[8] = FmtX32(adler32(ExtData), 8)

\* C13 as stated: whether a candidate is classified corrupted depends only on its
\* vendor checksums over its bytes, not on an Adler-32 stored in the catalog.
C13_Original ==
    JustSaved(AllVendors) => (Told("corrupted") <=> (FailsChecksum \/ FailsExtended))

\* C13 as amended: the Adler-32 of the catalog comes first.  A candidate is
\* classified corrupted exactly when it is not on the list of known wrong checksums
\* and a vendor checksum over its bytes is wrong that the catalog does not vouch
\* for: the checksum of the microcode while the record found for it does not store
\* the Adler-32 of its bytes, or the checksum of the Intel Extended Header while the
\* record does not store the Adler-32 of that header.
C13_AdlerComesFirst ==
    JustSaved(AllVendors) =>
        (Told("corrupted") <=>
            /\ ~AllowListed
            /\ \/ FailsChecksum /\ ~KnownBytes
               \/ FailsExtended /\ ~KnownExtended)

\* a microcode with a wrong vendor checksum that was added to the catalog is not
\* classified corrupted in the next run
C13_Witness ==
    /\ JustSaved(AllVendors) /\ FailsChecksum /\ KnownBytes /\ ~AllowListed
    /\ ~Told("corrupted") /\ Unprefixed

\* the AMD microcode passed the body check
AmdPassed == mc.mc_chk_ok = U32Zero

\* the wrapping sum of the dwords of the AMD microcode from 0x40 on
AmdBodySum == WordSum(PyFrom(mc.mc_data, 64))

\* C14 as stated: an AMD candidate passes the body check exactly when the sum of
\* the dwords from 0x40 to the end of the extracted region plus the DataChecksum of
\* the header is 0 modulo 2^32.
C14_Original ==
    Saved({"AMD"}) => (AmdPassed <=> U32AddWrap(AmdBodySum, mc.mc_chk) = U32Zero)

\* C14 as amended: an AMD candidate passes the body check exactly when the sum of
\* the dwords from 0x40 to the end of the extracted region equals the DataChecksum
\* of the header modulo 2^32 (the DataChecksum minus the sum is 0), or the
\* DataChecksum is 0, or the catalog record found for it stores the Adler-32 of its
\* bytes.
C14_AmdBodyCheck ==
    Saved({"AMD"}) =>
        (AmdPassed <=> (AmdBodySum = mc.mc_chk \/ mc.mc_chk = U32Zero \/ KnownBytes))

\* a microcode unknown to the catalog passes with a DataChecksum that is the sum of
\* its dwords, the two not adding up to 0
C14_Witness ==
    /\ Saved({"AMD"}) /\ AmdPassed /\ mc.mc_at_db = None /\ mc.mc_chk # U32Zero
    /\ AmdBodySum = mc.mc_chk
    /\ U32AddWrap(AmdBodySum, mc.mc_chk) # U32Zero

\* the family code of the AMD CPUID is of the families from 16h on ('00700Fxx' and up)
NewerFamily == PySlice(mc.cpu_id, 2, 4)[1] >= 55

\* C15 as stated: the CPU family code decides whether the AMD body check is made:
\* for an older family the check is applied, for a newer family it is skipped and
\* the candidate passes whatever its DataChecksum.
C15_Original ==
    (Saved({"AMD"}) /\ ~KnownBytes) =>
        /\ ~NewerFamily => (AmdPassed <=> AmdBodySum = mc.mc_chk)
        /\ NewerFamily => AmdPassed

\* C15 as amended: the DataChecksum field decides, the family code plays no part:
\* for a candidate of any family that the catalog does not vouch for, the check is
\* applied when DataChecksum is not 0 and skipped when it is 0.
C15_GatedByDataChecksum ==
    (Saved({"AMD"}) /\ ~KnownBytes) =>
        /\ mc.mc_chk # U32Zero => (AmdPassed <=> AmdBodySum = mc.mc_chk)
        /\ mc.mc_chk = U32Zero => AmdPassed

\* a candidate of a newer family with a DataChecksum that is not the sum of its
\* dwords is classified corrupted
C15_Witness ==
    /\ JustSaved({"AMD"}) /\ ~KnownBytes /\ NewerFamily
    /\ mc.mc_chk # U32Zero /\ AmdBodySum # mc.mc_chk
    /\ ~AmdPassed /\ Told("corrupted") /\ BadPrefixed(mc.mc_path)

\* 'Extended_'
ExtendedPrefix == <<69, 120, 116, 101, 110, 100, 101, 100, 95>>

\* the file being parsed is the temporary file of an Extended Header field
IsExtendedTemp ==
    cur_count > 0 /\ InTemp /\ PySlice(source[cur_count], 0, 9) = ExtendedPrefix

\* the input file the temporary file being parsed was made from
EntrySource ==
    CHOOSE p \in Range(source) :
        PySlice(source[cur_count], 0, 10 + Len(p)) = ExtendedPrefix \o p \o <<95>>

\* the microcode of that file (the files of the model hold it at offset 0)
SourceMicrocode ==
    PySlice(InputFiles[EntrySource], 0, U32Int(LE32(InputFiles[EntrySource], 32)))

\* the Extended Header field the temporary file being parsed was made for: its
\* number is the digit after the input file's name
Entry ==
    LET ext_idx == source[cur_count][11 + Len(EntrySource)] - 49
        off     == 48 + U32Int(LE32(SourceMicrocode, 28)) + 20 + 12 * ext_idx
    IN  Intel_MC_Header_Extended_Field(PySlice(SourceMicrocode, off, off + 12))

\* the Intel loop over the temporary file of an Extended Header field has ended
ExtendedParsed == IsExtendedTemp /\ pc = "intel" /\ idx = Len(match_list)

\* the last Intel candidate carries the values of the field, and its bytes are
\* those of the source microcode outside 0x0C-0x13 and 0x18-0x1B
CarriesEntry ==
    /\ Len(match_list) = 1 /\ mc.vendor = "Intel" /\ "cpu_id" \in DOMAIN mc
    /\ mc.cpu_id = Entry.ProcessorSignature
    /\ mc.plat = U32Int(Entry.PlatformIDs)
    /\ mc.mc_chk = Entry.Checksum
    /\ LET bytes == PySlice(reading, mc.mc_bgn, mc.mc_bgn + mc.mc_len)
       IN  /\ Len(bytes) = Len(SourceMicrocode)
           /\ \A i \in 0..(Len(bytes) - 1) :
                  (i \in 12..19 \/ i \in 24..27) \/ bytes[i + 1] = SourceMicrocode[i + 1]

\* the field's values fit the Intel header pattern: the top byte of the
\* ProcessorSignature is 0 and the PlatformIDs are below 0x100
EntryFitsPattern == Entry.ProcessorSignature[1] < 256 /\ U32Int(Entry.PlatformIDs) < 256

\* C16 as stated: the temporary file of an Extended Header field, parsed in its
\* turn, yields a candidate with the field's CPUID, platform mask and checksum and
\* the source's bytes elsewhere, for every value of the field.
C16_Original == ExtendedParsed => CarriesEntry

\* C16 as amended: it does so for every field whose values fit the Intel header
\* pattern; the temporary file of any other field yields no Intel candidate.
C16_ExtendedRoundTrip ==
    ExtendedParsed => IF EntryFitsPattern THEN CarriesEntry ELSE Len(match_list) = 0

\* the temporary file of a field with another CPUID and platform mask than the
\* main header has been parsed and its candidate written
C16_Witness ==
    /\ ExtendedParsed /\ EntryFitsPattern /\ CarriesEntry /\ Saved({"Intel"})
    /\ Entry.ProcessorSignature # LE32(SourceMicrocode, 12)
    /\ U32Int(Entry.PlatformIDs) # SourceMicrocode[25]

\* an iteration of the Intel loop of a run with -add has just ended
JustAdded ==
    /\ param.build_db /\ pc = "intel" /\ idx > 0 /\ mc.vendor = "Intel"
    /\ Outcome \in {"added", "present"}

\* C17 as stated: after the temporary file of an Extended Header field has been
\* parsed with -add, the catalog holds a record for the identity of the field.
C17_Original == (JustAdded /\ ExtendedParsed /\ CarriesEntry) => InCatalog

\* C17 as amended: with -add the catalog holds a record for the identity of the
\* main header; the identity of an Extended Header field, parsed from its
\* temporary file, is in the catalog only if it was there before.
C17_MainHeaderOnly ==
    JustAdded =>
        /\ ~InTemp => InCatalog
        /\ InTemp => (InCatalog <=> mc.mc_at_db # None)

\* with -add, the temporary file of an Extended Header field has been parsed, the
\* catalog holds the record of the main header and none for the field
C17_Witness ==
    /\ JustAdded /\ ExtendedParsed /\ CarriesEntry /\ ~InCatalog
    /\ \E i \in DOMAIN db.Intel :
           /\ db.Intel[i][1] = FmtX32(LE32(SourceMicrocode, 12), 8)
           /\ db.Intel[i][6] = FmtX32(LE32(SourceMicrocode, 16), 8)

\* an iteration of a vendor loop has just ended, and it reached the check of
\* the crossing over
JustProcessed ==
    /\ Outcome \in {"saved", "added", "present"} /\ idx > 0
    /\ pc = (CASE mc.vendor = "Intel" -> "intel" [] mc.vendor = "AMD" -> "amd"
               [] mc.vendor = "VIA" -> "via" [] OTHER -> "fsl")

\* the offset after the last byte of the microcode, by its computed size
ComputedEnd == mc.mc_bgn + (IF mc.vendor = "FSL" THEN SizeCap(mc.mc_len) ELSE mc.mc_len)

\* the bytes between the start of a vendor's structure and the start of its pattern
PatternLead == CASE mc.vendor = "AMD" -> 1 [] mc.vendor = "FSL" -> 4 [] OTHER -> 0

\* there is a next match in the vendor's list
HasNext == idx < Len(match_list)

\* C18: the crossing over is reported exactly when the structure of the next
\* candidate starts below the start of this one plus its computed size.
C18_CrossByStructureStart ==
    JustProcessed =>
        (Told("cross") <=> (HasNext /\ match_list[idx + 1] - PatternLead < ComputedEnd))

\* what the script does: it is reported exactly when the pattern match of the
\* next candidate starts below the start of this one plus its computed size; the
\* match starts 1 byte (AMD) or 4 bytes (Freescale) after the structure
CrossByMatchStart ==
    JustProcessed => (Told("cross") <=> (HasNext /\ match_list[idx + 1] < ComputedEnd))

\* the crossing over of an AMD microcode into the next one has been reported
CrossReported ==
    /\ JustProcessed /\ mc.vendor = "AMD" /\ HasNext /\ Told("cross")
    /\ match_list[idx + 1] - 1 > mc.mc_bgn /\ match_list[idx + 1] < ComputedEnd

\* the bytes of the last microcode by its computed size, as a file of their own
AloneBytes == PySlice(reading, mc.mc_bgn, mc.mc_bgn + mc.mc_len)

\* the AMD iteration on those bytes alone, no other match after it
AmdAlone ==
    amd_iteration([Context EXCEPT !.reading = AloneBytes, !.idx = 0, !.mc_nr = mc_nr - 1], <<1>>)

\* the messages that are not about a crossing over
NotCross(s) == SelectSeq(s, LAMBDA m : m[1] # "cross")

\* the messages of the file about the last microcode
OwnMsgs == SelectSeq(msgs, LAMBDA m : m[2] = mc_nr)

\* C19: an AMD candidate of a file where candidates overlap is validated,
\* classified and written to its own path as its bytes alone would be; the
\* message about the crossing over is the only difference.
C19_CrossChangesNothing ==
    JustSaved({"AMD"}) =>
        /\ [mc EXCEPT !.mc_bgn = 0] = AmdAlone.mc
        /\ NotCross(OwnMsgs) = AmdAlone.msgs
        /\ ~param.mce_ubu => OnDisk

\* the second of two overlapping AMD microcodes has been written, after the first
\* was reported as crossing over and written too
C19_Witness ==
    /\ JustSaved({"AMD"}) /\ idx = 2 /\ mc_nr = 2 /\ OnDisk
    /\ mc.mc_bgn < match_list[1] - 1 + 512
    /\ \E i \in DOMAIN msgs : msgs[i] = <<"cross", 1>>
    /\ \E p \in DOMAIN disk : p # mc.mc_path /\ disk[p] = PySlice(reading, 0, 512)

\* a vendor loop has just handed the offset mc.mc_bgn to get_struct: its
\* iteration has ended, or get_struct has ended the run
OffsetHanded ==
    /\ mc.vendor # "none"
    /\ \/ pc \in {"intel", "amd", "via", "fsl"} /\ idx > 0
       \/ pc = "exit" /\ exit_code = -1 /\ Outcome = "exit"

\* C20: the offset of every candidate, after the step back from the pattern match
\* (AMD 1, Freescale 4), is an offset of the buffer: 0 <= offset < length.
C20_OffsetInBuffer == OffsetHanded => (0 <= mc.mc_bgn /\ mc.mc_bgn < Len(reading))

\* what the script does: the offset is below the length of the buffer and not
\* below minus the step back; a negative one makes get_struct end the run
OffsetFromMatch ==
    OffsetHanded =>
        /\ mc.mc_bgn < Len(reading)
        /\ mc.mc_bgn >= -(CASE mc.vendor = "AMD" -> 1 [] mc.vendor = "FSL" -> 4 [] OTHER -> 0)
        /\ mc.mc_bgn < 0 => (pc = "exit" /\ exit_code = -1)

\* the position of the script is in the loop of a vendor
InLoop == pc \in {"intel", "amd", "via", "fsl"}

KeyLen(table) == IF table = "AMD" THEN 9 ELSE 6

\* no two records of a vendor table have the same identity tuple
OnePerIdentity ==
    \A t \in {"Intel", "AMD", "VIA", "FSL"} :
        \A i, j \in DOMAIN db[t] :
            SubSeq(db[t][i], 1, KeyLen(t)) = SubSeq(db[t][j], 1, KeyLen(t)) => i = j

\* C22: each vendor table holds at most one record per identity tuple, and an
\* iteration with -add that finds the identity in the catalog leaves the
\* catalog as it is and goes on.
C22_OneRecordPerIdentity ==
    /\ []OnePerIdentity
    /\ [][(InLoop /\ idx < Len(match_list) /\ param.build_db /\ "mc_at_db" \in DOMAIN mc'
           /\ mc'.mc_at_db # None) => (db' = db /\ pc' = pc /\ idx' = idx + 1)]_vars

\* with -add, the second copy of a microcode in a file was found in the catalog,
\* which holds the one record the first copy added
C22_Witness ==
    /\ param.build_db /\ InLoop /\ idx = 2 /\ Outcome = "present" /\ mc.mc_at_db # None
    /\ InCatalog /\ Len(db[AdlerColumn[1]]) = 1 /\ OnePerIdentity

\* the records of the vendor tables of d are, in place and unchanged, in e
RecordsKept(d, e) ==
    \A t \in {"Intel", "AMD", "VIA", "FSL"} :
        Len(e[t]) >= Len(d[t]) /\ SubSeq(e[t], 1, Len(d[t])) = d[t]

\* C23 as stated: no step of a run without -add changes the catalog, and a step
\* of a run with -add keeps every record of the vendor tables.
C23_Original ==
    [][IF param.build_db THEN RecordsKept(db, db') ELSE db' = db]_vars

\* C23 as amended: the same, but the opening of a catalog whose MCE table has no
\* row inserts the default row (revision 0, developer 1) in any run.
C23_AppendOnly ==
    [][IF pc = "open" /\ db.MCE = <<>>
       THEN db' = [db EXCEPT !.MCE = <<[revision |-> 0, developer |-> 1]>>]
       ELSE IF param.build_db THEN RecordsKept(db, db') /\ Len(db'.MCE) = 1
       ELSE db' = db]_vars

\* a run with -add on a released catalog has added a second record after the
\* first, and raised the revision once
C23_Witness ==
    /\ param.build_db /\ Len(db.Intel) + Len(db.AMD) + Len(db.VIA) + Len(db.FSL) >= 2
    /\ db.MCE = <<[revision |-> 6, developer |-> 1]>>

----------------------------------------------------------------------------
(* save_mc_file on its own: a directory that microcodes are saved into     *)

\* 'a.bin', 'b.bin'
SavePaths == {<<97, 46, 98, 105, 110>>, <<98, 46, 98, 105, 110>>}

\* the data saved; the first two have the same Adler-32 (000B0005)
SaveData == {<<2, 0, 2>>, <<1, 2, 1>>, <<9>>}

\* the directory is empty or holds a file of an earlier run
InitSave ==
    /\ call = Idle /\ db = None /\ source = <<>> /\ temp_mc_paths = <<>> /\ cur_count = 0
    /\ reading = <<>> /\ match_list = None /\ idx = 0 /\ pc = "save" /\ mc_nr = 0 /\ msgs = <<>>
    /\ total = 0 /\ mc_conv_data = <<>> /\ mc = NoMc /\ exit_code = NoCode
    /\ param \in {NoParam, [NoParam EXCEPT !.mce_ubu = TRUE]}
    /\ disk \in {NoFiles} \cup {p :> <<9>> : p \in SavePaths}

\* a microcode is saved as the vendor loops do it (lines 1443, 1624, 1748, 1870)
SaveMcFile ==
    /\ pc = "save"
    /\ \E p \in SavePaths, x \in SaveData :
           /\ disk' = save_mc_file(disk, param.mce_ubu, p, x, adler32(x))
           /\ call' = [fn |-> "save_mc_file", mc_path |-> p, mc_data |-> x, before |-> disk]
    /\ UNCHANGED <<db, param, source, temp_mc_paths, cur_count, reading, match_list, idx, pc, mc_nr,
                   total, mc_conv_data, msgs, mc, exit_code>>

SpecSave == InitSave /\ [][SaveMcFile]_vars

\* the name a microcode is saved under when its name is taken by other data
Suffixed(mc_path, mc_data) ==
    PySlice(mc_path, 0, -4) \o <<95>> \o FmtX32(adler32(mc_data), 8) \o <<46, 98, 105, 110>>

\* the last step saved a microcode
JustSavedFile == call.fn = "save_mc_file"

\* saving the same microcode again changes nothing
SavedAgain ==
    save_mc_file(disk, param.mce_ubu, call.mc_path, call.mc_data, adler32(call.mc_data)) = disk

\* the name of the microcode was taken by other data
NameTaken == call.mc_path \in DOMAIN call.before /\ call.before[call.mc_path] # call.mc_data

\* C24 as stated: saving is idempotent, no file that was there is altered, and
\* data whose name is taken by other data is written under the suffixed name.
C24_Original ==
    JustSavedFile =>
        /\ SavedAgain
        /\ \A q \in DOMAIN call.before : q \in DOMAIN disk /\ disk[q] = call.before[q]
        /\ NameTaken => (Suffixed(call.mc_path, call.mc_data) \in DOMAIN disk
                         /\ disk[Suffixed(call.mc_path, call.mc_data)] = call.mc_data)

\* C24 as amended: saving is idempotent; with -ubu nothing is written; without
\* it, data whose name is taken by other data is written under the suffixed
\* name, and the only file that can be altered is one that has the suffixed name.
C24_SaveKeepsFiles ==
    JustSavedFile =>
        /\ SavedAgain
        /\ param.mce_ubu => disk = call.before
        /\ ~param.mce_ubu =>
              /\ \A q \in DOMAIN call.before :
                     /\ q \in DOMAIN disk
                     /\ disk[q] = call.before[q]
                        \/ (NameTaken /\ q = Suffixed(call.mc_path, call.mc_data))
              /\ LET name == IF NameTaken THEN Suffixed(call.mc_path, call.mc_data)
                             ELSE call.mc_path
                 IN  name \in DOMAIN disk /\ disk[name] = call.mc_data

\* other data of the same name has been saved under the suffixed name, the file
\* of that name left as it was
C24_Witness ==
    /\ JustSavedFile /\ ~param.mce_ubu /\ NameTaken
    /\ Suffixed(call.mc_path, call.mc_data) \notin DOMAIN call.before
    /\ disk[Suffixed(call.mc_path, call.mc_data)] = call.mc_data
    /\ disk[call.mc_path] = call.before[call.mc_path]

\* the Intel microcode has an Extra Header whose CPUID list lacks the CPUID of
\* the main header
CpuidDiscrepancy ==
    mc.mc_hdr_extra.present /\ mc.cpu_id \notin mc.mc_hdr_extra.cpuids

\* the Extra Header has another update revision than the main header, and the
\* microcode is not on the allow-list
RevisionDiscrepancy ==
    mc.mc_hdr_extra.present /\ mc.patch # mc.mc_hdr_extra.UpdateRevision /\ ~AllowListed

\* C25 as stated: an Intel candidate with such a discrepancy is rejected: it is
\* extracted neither under the unprefixed name nor as new.
C25_Original ==
    (JustSaved({"Intel"}) /\ (CpuidDiscrepancy \/ RevisionDiscrepancy)) =>
        (~Unprefixed /\ ~NewPrefixed(mc.mc_path))

\* C25 as amended: the discrepancy is reported by a warning and nothing else: the
\* candidate is extracted, as new or under the unprefixed name when its checksums
\* are right and its bytes all there.
C25_DiscrepancyWarned ==
    (JustSaved({"Intel"}) /\ (CpuidDiscrepancy \/ RevisionDiscrepancy)) =>
        /\ (CpuidDiscrepancy /\ mc.cpu_id # U32Zero) => Told("cpuid")
        /\ RevisionDiscrepancy => Told("patch")
        /\ WellFormed => (Unprefixed \/ NewPrefixed(mc.mc_path))
        /\ ~param.mce_ubu => OnDisk

\* a microcode whose CPUID is not in the list of its Extra Header has been
\* written as new, with the warning
C25_Witness ==
    /\ JustSaved({"Intel"}) /\ CpuidDiscrepancy /\ ~RevisionDiscrepancy /\ WellFormed
    /\ Told("cpuid") /\ NewPrefixed(mc.mc_path) /\ OnDisk

\* the (CPUID, Update Revision, Date) of the Intel header a file starts with
IntelKey(data) ==
    <<LE32(data, 12), LE32(data, 4),
      full_date_of(FmtX(LE16(data, 8), 4), FmtX(data[12], 2), FmtX(data[11], 2))>>

\* the Intel microcodes written under the unprefixed name although their dwords
\* do not add up to 0 and their key is on known_bad_intel
ExcusedFiles ==
    {p \in DOMAIN disk :
        /\ PySlice(p, 0, Len(extr_dir_int)) = extr_dir_int
        /\ ~BadPrefixed(p) /\ ~NewPrefixed(p)
        /\ WordSum(disk[p]) # U32Zero /\ IntelKey(disk[p]) \in known_bad_intel}

\* C26 as stated: an entry of the allow-list excuses the candidate of one full
\* identity tuple: two microcodes excused by the same entry do not differ.
C26_Original ==
    \A p, q \in ExcusedFiles : IntelKey(disk[p]) = IntelKey(disk[q]) => disk[p] = disk[q]

\* C26 as amended: an entry excuses every candidate with its (CPUID, revision,
\* date) (Intel) or its (date, name, checksum) (VIA), whatever its other fields
\* and bytes are: a failing checksum that the catalog does not vouch for gives
\* the unprefixed name without a message if the candidate is on the list, and
\* !Bad_ if not.
C26_KeyedByThreeFields ==
    (JustSaved({"Intel", "VIA"}) /\ FailsChecksum /\ ~KnownBytes) =>
        IF AllowListed THEN Unprefixed /\ ~Told("corrupted")
        ELSE BadPrefixed(mc.mc_path) /\ Told("corrupted")

\* two microcodes with the CPUID, revision and date of one entry, other Platform
\* IDs and other bytes, have both been written under the unprefixed name
C26_Witness ==
    /\ JustSaved({"Intel"}) /\ FailsChecksum /\ ~KnownBytes /\ AllowListed /\ Unprefixed
    /\ \E p, q \in ExcusedFiles :
           /\ IntelKey(disk[p]) = IntelKey(disk[q]) /\ disk[p][25] # disk[q][25]
           /\ disk[q] = mc.mc_data

\* the vendor whose loop is running
LoopVendor ==
    CASE pc = "intel" -> "Intel" [] pc = "amd" -> "AMD" [] pc = "via" -> "VIA" [] OTHER -> "FSL"

\* the offsets of the buffer at which the pattern of the running loop matches
\* and that are not on the list of the loop
LeftOut == PatHits(LoopVendor, reading) \ Range(match_list)

\* C27 as stated: the list of a vendor loop holds every offset of the buffer at
\* which the vendor's pattern matches.
C27_Original == InLoop => LeftOut = {}

\* C27 as amended: the list holds the matches of one scan from left to right
\* that resumes at the end of each match: every offset on it is one at which
\* the pattern matches, the offsets are at least a pattern length apart, and an
\* offset at which the pattern matches is left out exactly when it lies inside
\* the match reported before it.
C27_ScanResumesAtMatchEnd ==
    InLoop =>
        LET len == PatLen(LoopVendor)
        IN  /\ \A i \in DOMAIN match_list : match_list[i] \in PatHits(LoopVendor, reading)
            /\ \A i \in 1..(Len(match_list) - 1) : match_list[i] + len <= match_list[i + 1]
            /\ \A p \in LeftOut :
                   \E i \in DOMAIN match_list : match_list[i] < p /\ p < match_list[i] + len

\* the Freescale pattern matches at 4 and, inside that match, at 88: the loop
\* has run over the list, which holds 4 alone
C27_Witness ==
    /\ pc = "fsl" /\ match_list = <<4>> /\ idx = 1 /\ LeftOut = {88}
    /\ mc.vendor = "FSL" /\ mc.mc_bgn = 0

----------------------------------------------------------------------------
(* The update check: thread_update runs mce_upd_check beside the script    *)

\* db_path + '.temp'
tmp_db == <<77, 67, 69, 46, 100, 98, 46, 116, 101, 109, 112>>

\* the revisions the catalog on the network may have
GitDbVers == {0, 6}

\* the thread at a place of mce_upd_check: 'off' not started (-duc), 'start',
\* 'fetched' after the two downloads, 'temp' with tmp_db written, 'removed'
\* with tmp_db read and removed, 'connected' to the catalog, 'done' returned;
\* result is 'None' or names what is outdated
Task(at, py_is_upd, git_db_ver, result) ==
    [fn |-> "mce_upd_check", at |-> at, py_is_upd |-> py_is_upd, git_db_ver |-> git_db_ver,
     result |-> result]

\* the lists of input files the script is run on beside the update check
TaskSources == {<<<<105, 103>>, <<97, 103>>>>, <<<<118, 103>>, <<102, 103>>>>}

\* the script starts, with the catalog file missing, without records or as
\* released; the thread is started unless -duc is given (line 899)
InitTask ==
    /\ call \in {Task("start", TRUE, 0, "None"), Task("off", TRUE, 0, "None")}
    /\ param \in {NoParam, [NoParam EXCEPT !.build_db = TRUE]}
    /\ db \in {None, EmptyDb, ReleasedDb}
    /\ source \in TaskSources
    /\ temp_mc_paths = <<>> /\ cur_count = 0 /\ reading = <<>> /\ match_list = <<>> /\ idx = 0
    /\ pc = "open" /\ mc_nr = 0 /\ total = 0 /\ mc_conv_data = <<>> /\ msgs = <<>>
    /\ disk = NoFiles /\ mc = NoMc /\ exit_code = NoCode

\* the thread leaves the script's own variables alone
TaskOnly ==
    UNCHANGED <<param, source, temp_mc_paths, cur_count, reading, match_list, idx, pc, mc_nr,
                total, mc_conv_data, msgs, mc, exit_code>>

\* MCE.py and MCE.db are downloaded, or a download or the title fails (lines 686-696)
TaskFetch ==
    /\ call.fn = "mce_upd_check" /\ call.at = "start"
    /\ \/ \E up \in BOOLEAN, ver \in GitDbVers : call' = Task("fetched", up, ver, "None")
       \/ call' = Task("done", TRUE, 0, "None")
    /\ UNCHANGED <<db, disk>> /\ TaskOnly

\* the downloaded catalog is written to tmp_db (lines 697-698)
TaskTemp ==
    /\ call.fn = "mce_upd_check" /\ call.at = "fetched"
    /\ disk' = Written(WriteFile(AllFiles, tmp_db, <<call.git_db_ver>>))
    /\ call' = [call EXCEPT !.at = "temp"]
    /\ UNCHANGED db /\ TaskOnly

\* its revision is read and tmp_db is removed (lines 699-705)
TaskRemove ==
    /\ call.fn = "mce_upd_check" /\ call.at = "temp"
    /\ disk' = Written(IF isfile(AllFiles, tmp_db) THEN RemoveFile(AllFiles, tmp_db) ELSE AllFiles)
    /\ call' = [call EXCEPT !.at = "removed"]
    /\ UNCHANGED db /\ TaskOnly

\* sqlite3.connect(db_path): a file that is not there is made, without tables
\* (line 706)
TaskConnect ==
    /\ call.fn = "mce_upd_check" /\ call.at = "removed"
    /\ db' = IF db = None THEN BlankDb ELSE db
    /\ call' = [call EXCEPT !.at = "connected"]
    /\ UNCHANGED disk /\ TaskOnly

\* the revision of the catalog is read and the result is made; without the row
\* of the MCE table the SELECT raises and the result is None (lines 708-721)
TaskRead ==
    /\ call.fn = "mce_upd_check" /\ call.at = "connected"
    /\ LET db_is_upd == db.MCE[1].revision >= call.git_db_ver
       IN  call' = [call EXCEPT !.at = "done",
                                !.result = IF db.MCE = <<>> THEN "None"
                                           ELSE IF ~call.py_is_upd /\ ~db_is_upd THEN "mce_db"
                                           ELSE IF ~call.py_is_upd THEN "mce"
                                           ELSE IF ~db_is_upd THEN "db"
                                           ELSE "None"]
    /\ UNCHANGED <<db, disk>> /\ TaskOnly

\* mce_exit: the result of the thread is printed if the thread has ended with
\* one; the thread is not joined (lines 576-591)
MceExit ==
    /\ pc = "exit"
    /\ pc' = "ended"
    /\ msgs' = IF call.fn = "mce_upd_check" /\ call.at = "done" /\ call.result # "None"
               THEN Append(msgs, <<"outdated", 0>>) ELSE msgs
    /\ UNCHANGED <<call, db, param, source, temp_mc_paths, cur_count, reading, match_list, idx,
                   mc_nr, total, mc_conv_data, disk, mc, exit_code>>

NextTask ==
    \/ Connect \/ OpenFile \/ IntelMicrocode \/ AmdMicrocode \/ ViaMicrocode \/ FslMicrocode
    \/ VendorDone \/ FileDone \/ Finish \/ MceExit
    \/ TaskFetch \/ TaskTemp \/ TaskRemove \/ TaskConnect \/ TaskRead

SpecTask == InitTask /\ [][NextTask]_vars

\* C28: the update check never writes to the catalog: no step of the thread
\* changes the catalog, so that the script finds the catalog it would find with
\* the thread disabled (-duc).
C28_TaskLeavesCatalog == [][call' # call => db' = db]_vars

----------------------------------------------------------------------------
(* One run of the script, every step of which is taken in the end          *)

NextRun ==
    \/ Connect \/ OpenFile \/ IntelMicrocode \/ AmdMicrocode \/ ViaMicrocode \/ FslMicrocode
    \/ VendorDone \/ FileDone \/ Finish

\* where the script is: the place in the code, the file and the candidate
position == <<pc, cur_count, idx>>

\* a step of the script as its position shows it: before the exit the script
\* goes on to another place, to the next file or to another candidate
Advance ==
    /\ pc # "exit"
    /\ pc' \in {"file", "intel", "amd", "via", "fsl", "exit"}
    /\ cur_count' \in {cur_count, cur_count + 1}
    /\ idx' \in {0, idx, idx + 1}

\* the script runs on: it does not stay before its exit for ever without a step
SpecRun == Init /\ [][NextRun]_vars /\ WF_position(Advance)

\* the file the step is about: the one being opened, or the one of the loops
StepFile == IF pc = "file" THEN source[cur_count + 1] ELSE source[cur_count]

\* C29: the loop over the input list ends although the list grows under it: the
\* list only grows, a step appends to it only for a file the script did not
\* make itself, every step moves the script on, and every run reaches its exit.
C29_LoopTerminates ==
    /\ [][/\ source' # source =>
                 /\ Len(source') > Len(source) /\ SubSeq(source', 1, Len(source)) = source
                 /\ StepFile \notin Range(temp_mc_paths)
           /\ Advance /\ position' # position]_vars
    /\ <>[](pc = "exit")

\* a run has ended after its loop went over the files appended to the list: a
\* converted container, or the entries of an Extended Header
C29_Witness ==
    /\ pc = "exit" /\ exit_code = 0 /\ temp_mc_paths # <<>>
    /\ cur_count = Len(source) /\ source[cur_count] \in Range(temp_mc_paths)

\* C30: no path the script made is on the input list more than once, so that
\* each materialised Extended-Header entry and each converted container is
\* opened once in a run.
C30_SyntheticOnce ==
    \A i, j \in DOMAIN source :
        (i # j /\ source[i] \in Range(temp_mc_paths)) => source[i] # source[j]

====
